---- MODULE Spec2Model ----
(***************************************************************************)
(* A model of the tool-calling dispatcher OllamaAgent                      *)
(* (src/basic_ollama_agent_with_post.py): construction, invoke and         *)
(* _execute_tool, one action per step of invoke.                           *)
(***************************************************************************)
EXTENDS Integers, Sequences, FiniteSets, TLC

VARIABLES
    tools,          \* self.tools: the callables, in registration order
    output_schema,  \* self.output_schema: the output contract, or NoSchema
    tool_schemas,   \* self.tool_schemas: the schemas inferred at construction
    model_name,     \* self.model_name
    endpoint,       \* self.endpoint
    proxies,        \* self.proxies
    request,        \* what the current invoke posted: its URL, body and proxies
    sent,           \* the number of requests the current invoke has posted
    pc,             \* where the current invoke stands
    prompt,         \* the prompt of the current invoke
    response,       \* the decoded body, response = response.json()
    result,         \* invoke's local dict `result`
    calls,          \* the items the loop of line 159 iterates over
    idx,            \* the position of that loop in calls
    executed,       \* history: the callables run by this invoke, in order
    ret,            \* what invoke returned to its caller
    escaped,        \* the fault that left invoke, if one did
    invocations,    \* history: the invokes begun so far, counted up to MaxInvocations
    frames,         \* concurrent callers: the locals of each caller's invoke
    caller_edits,   \* the edits the caller made to the list it passed in
    us_gaap,        \* SEC extractor: facts['us-gaap'], tag -> unit types -> entries
    date_range,     \* SEC extractor: start_date and end_date of the extraction
    metrics_data,   \* SEC extractor: what extract_financial_metrics returned, per version
    download,       \* SEC extractor: the locals of download_bank_data
    derived,        \* SEC extractor: the DataFrame of calculate_derived_metrics
    excel,          \* SEC extractor: the locals of save_to_excel's dictionary loop
    chat            \* dashboard: the chat container, the history and the input box

\* the attributes of the agent
agent == <<tools, output_schema, tool_schemas, model_name, endpoint, proxies>>

\* the state outside the agent and its sequential caller
\* the state of the SEC extractor
sec == <<us_gaap, date_range, metrics_data>>

\* the state of the downloader's other methods and of the dashboard
apps == <<download, derived, excel, chat>>

others == <<frames, caller_edits, sec, apps>>

vars == <<agent, request, sent, pc, prompt, response, result, calls, idx,
          executed, ret, escaped, invocations, others>>

(***************************************************************************)
(* Python values, as decoded from JSON or built by the program.            *)
(***************************************************************************)
None == [t |-> "NoneType"]
PyStr(s) == [t |-> "str", v |-> s]
PyInt(n) == [t |-> "int", v |-> n]
PyList(q) == [t |-> "list", v |-> q]
PyDict(f) == [t |-> "dict", v |-> f]
\* An instance of the output contract, holding the validated fields.
PyModel(f) == [t |-> "BaseModel", v |-> f]

\* bool(v)
Truthy(v) ==
    CASE v.t = "NoneType" -> FALSE
      [] v.t = "str" -> v.v # ""
      [] v.t = "int" -> v.v # 0
      [] v.t = "list" -> Len(v.v) > 0
      [] v.t = "dict" -> DOMAIN v.v # {}
      [] OTHER -> TRUE

\* str(v) as an f-string formats it
PyFormat(v) ==
    CASE v.t = "str" -> v.v
      [] v.t = "NoneType" -> "None"
      [] v.t = "int" -> ToString(v.v)
      [] OTHER -> "<" \o v.t \o ">"

(***************************************************************************)
(* An evaluation either returns a value or raises.                         *)
(***************************************************************************)
Return(v) == [ok |-> TRUE, val |-> v]
Raise(type, msg) == [ok |-> FALSE, exc |-> [type |-> type, msg |-> msg]]

\* The base class of each fault class the program can meet.
Parent(type) ==
    CASE type = "KeyError" -> "Exception"
      [] type = "TypeError" -> "Exception"
      [] type = "ValueError" -> "Exception"
      [] type = "JSONDecodeError" -> "ValueError"
      [] type = "ValidationError" -> "ValueError"
      [] type = "RequestException" -> "Exception"
      [] type = "ConnectionError" -> "RequestException"
      [] type = "HTTPError" -> "RequestException"
      [] type = "RequestsJSONDecodeError" -> "RequestException"
      [] OTHER -> "BaseException"

RECURSIVE IsSubclass(_, _)
IsSubclass(type, base) ==
    IF type = base THEN TRUE
    ELSE IF type = "BaseException" THEN FALSE
    ELSE IsSubclass(Parent(type), base)

\* obj[key] for a string key
GetItem(obj, key) ==
    CASE obj.t = "dict" ->
            IF key \in DOMAIN obj.v THEN Return(obj.v[key])
            ELSE Raise("KeyError", "'" \o key \o "'")
      [] obj.t = "str" -> Raise("TypeError", "string indices must be integers")
      [] obj.t = "list" ->
            Raise("TypeError", "list indices must be integers or slices, not str")
      [] OTHER -> Raise("TypeError", "'" \o obj.t \o "' object is not subscriptable")

\* `key in obj` for a string key.  In invoke obj is always a dict (line 152
\* has raised on anything else); the strings of the model are all shorter
\* than the key, where the substring test is an equality test.
Contains(key, obj) ==
    CASE obj.t = "dict" -> Return(key \in DOMAIN obj.v)
      [] obj.t = "list" -> Return(\E i \in 1..Len(obj.v) : obj.v[i] = PyStr(key))
      [] obj.t = "str" -> Return(Len(key) <= Len(obj.v) /\ key = obj.v)
      [] OTHER -> Raise("TypeError", "argument of type '" \o obj.t \o "' is not iterable")

\* The characters of the strings the model iterates over.
Chars(s) ==
    CASE s = "" -> <<>>
      [] s = "no" -> <<PyStr("n"), PyStr("o")>>

RECURSIVE KeysOf(_)
KeysOf(K) ==
    IF K = {} THEN <<>>
    ELSE LET k == CHOOSE x \in K : TRUE IN <<PyStr(k)>> \o KeysOf(K \ {k})

\* The items `for item in v` visits, as a sequence; raises if v is not iterable.
Iter(v) ==
    CASE v.t = "list" -> Return(v.v)
      [] v.t = "str" -> Return(Chars(v.v))
      [] v.t = "dict" -> Return(KeysOf(DOMAIN v.v))
      [] OTHER -> Raise("TypeError", "'" \o v.t \o "' object is not iterable")

(***************************************************************************)
(* The callables a caller may register.  calculate_sum and get_product are *)
(* the two of the module's example; difference is a second callable whose  *)
(* __name__ is also "calculate_sum"; scale_values and top_items have       *)
(* parameters of the other annotations, with and without defaults:         *)
(*   def scale_values(values: list, factor: float = 1.0,                   *)
(*                    verbose: bool = False, label="")                     *)
(*   def top_items(items: List[int], count: int, names: tuple = ()):       *)
(*       """Pick the first items. ..."""                                   *)
(***************************************************************************)
Callables == {"calculate_sum", "get_product", "difference", "scale_values", "top_items"}

\* tool.__name__
FnName(fn) ==
    CASE fn = "calculate_sum" -> "calculate_sum"
      [] fn = "get_product" -> "get_product"
      [] fn = "difference" -> "calculate_sum"
      [] OTHER -> fn

\* the formal parameters, in declaration order
Params(fn) ==
    CASE fn = "scale_values" -> <<"values", "factor", "verbose", "label">>
      [] fn = "top_items" -> <<"items", "count", "names">>
      [] OTHER -> <<"a", "b">>

\* the parameters that have a default value
Defaulted(fn) ==
    CASE fn = "difference" -> {"b"}
      [] fn = "scale_values" -> {"factor", "verbose", "label"}
      [] fn = "top_items" -> {"names"}
      [] OTHER -> {}

DefaultOf(fn, p) ==
    CASE p = "verbose" -> [t |-> "bool", v |-> FALSE]
      [] p = "label" -> PyStr("")
      [] p = "names" -> [t |-> "tuple", v |-> <<>>]
      [] p = "factor" -> PyInt(1)
      [] OTHER -> PyInt(0)

\* the annotation of a parameter; "empty" where there is none
Annotation(fn, p) ==
    CASE fn = "scale_values" ->
            (CASE p = "values" -> "list" [] p = "factor" -> "float"
               [] p = "verbose" -> "bool" [] OTHER -> "empty")
      [] fn = "top_items" ->
            (CASE p = "items" -> "List[int]" [] p = "count" -> "int"
               [] OTHER -> "tuple")
      [] fn = "difference" -> "empty"
      [] OTHER -> "int"

\* inspect.getdoc(tool), as its lines; <<>> where the callable has none
DocLines(fn) ==
    CASE fn = "calculate_sum" ->
            <<"Calculate the sum of two numbers.", "", "Args:",
              "    a: First number", "    b: Second number">>
      [] fn = "get_product" -> <<"Computes the product of two numbers.">>
      [] fn = "top_items" -> <<"Pick the first items.", "", "Returns a list.">>
      [] OTHER -> <<>>

\* a + b
PyAdd(a, b) ==
    CASE a.t = "int" /\ b.t = "int" -> Return(PyInt(a.v + b.v))
      [] a.t = "str" /\ b.t = "str" -> Return(PyStr(a.v \o b.v))
      [] a.t = "list" /\ b.t = "list" -> Return(PyList(a.v \o b.v))
      [] OTHER -> Raise("TypeError", "unsupported operand type(s) for +: '"
                                      \o a.t \o "' and '" \o b.t \o "'")

\* a - b
PySub(a, b) ==
    IF a.t = "int" /\ b.t = "int" THEN Return(PyInt(a.v - b.v))
    ELSE Raise("TypeError", "unsupported operand type(s) for -: '"
                             \o a.t \o "' and '" \o b.t \o "'")

\* int(x), on the strings the model passes
PyIntOf(x) ==
    CASE x.t = "int" -> Return(x)
      [] x.t = "str" ->
            IF x.v = "7" THEN Return(PyInt(7))
            ELSE Raise("ValueError",
                       "invalid literal for int() with base 10: '" \o x.v \o "'")
      [] OTHER -> Raise("TypeError",
                   "int() argument must be a string, a bytes-like object or a real number, not '"
                   \o x.t \o "'")

\* The body of callable fn on its bound parameters.
Body(fn, bound) ==
    CASE fn = "calculate_sum" -> PyAdd(bound["a"], bound["b"])
      [] fn = "get_product" ->
            LET x == PyIntOf(bound["a"]) IN
            IF ~x.ok THEN x
            ELSE LET y == PyIntOf(bound["b"]) IN
                 IF ~y.ok THEN y ELSE Return(PyInt(x.val.v * y.val.v))
      [] fn = "difference" -> PySub(bound["a"], bound["b"])
      [] fn = "scale_values" -> Return(bound["values"])
      [] fn = "top_items" -> Return(bound["items"])

ParamSet(fn) == {Params(fn)[i] : i \in 1..Len(Params(fn))}

\* tool(**arguments): the mapping is expanded as named parameters, bound to
\* the signature, and the body runs.
CallTool(fn, arguments) ==
    IF arguments.t # "dict"
    THEN Raise("TypeError", FnName(fn) \o "() argument after ** must be a mapping, not "
                             \o arguments.t)
    ELSE LET kw == arguments.v
             unknown == DOMAIN kw \ ParamSet(fn)
             missing == (ParamSet(fn) \ Defaulted(fn)) \ DOMAIN kw
         IN  IF unknown # {}
             THEN Raise("TypeError", FnName(fn) \o "() got an unexpected keyword argument '"
                                      \o (CHOOSE k \in unknown : TRUE) \o "'")
             ELSE IF missing # {}
             THEN Raise("TypeError", FnName(fn) \o "() missing "
                         \o ToString(Cardinality(missing))
                         \o " required positional argument")
             ELSE Body(fn, [p \in ParamSet(fn) |->
                              IF p \in DOMAIN kw THEN kw[p] ELSE DefaultOf(fn, p)])

\* Whether the callable at position i answers to tool_name (line 108).
NameMatches(registry, i, tool_name) ==
    tool_name.t = "str" /\ FnName(registry[i]) = tool_name.v

\* a lookup that keeps the last match, as a name-keyed table filled in
\* registration order would
LookupLast(registry, tool_name) ==
    LET hits == {i \in 1..Len(registry) : NameMatches(registry, i, tool_name)}
    IN  IF hits = {} THEN 0 ELSE CHOOSE i \in hits : \A j \in hits : j <= i

\* The position in the registry that the loop of line 107 stops at for
\* tool_name: the first callable whose __name__ equals it; 0 if none does.
Lookup(registry, tool_name) ==
    LET hits == {i \in 1..Len(registry) : NameMatches(registry, i, tool_name)}
    IN  IF hits = {} THEN 0 ELSE CHOOSE i \in hits : \A j \in hits : i <= j

\* `except Exception` around the call of line 110
ToolFaultCaught(type) == IsSubclass(type, "Exception")

NotFoundText(tool_name) == "Tool " \o PyFormat(tool_name) \o " not found"

ErrorText(tool_name, exc) ==
    "Error executing " \o PyFormat(tool_name) \o ": " \o exc.msg

\* _execute_tool(tool_name, arguments)
ExecuteTool(registry, tool_name, arguments) ==
    LET i == Lookup(registry, tool_name) IN
    IF i = 0 THEN Return(PyStr(NotFoundText(tool_name)))
    ELSE LET out == CallTool(registry[i], arguments) IN
         IF out.ok THEN out
         ELSE IF ToolFaultCaught(out.exc.type)
              THEN Return(PyStr(ErrorText(tool_name, out.exc)))
              ELSE out

(***************************************************************************)
(* _generate_tool_schemas (lines 38-94).                                   *)
(***************************************************************************)
\* lines 70-81: the schema type of an annotation
SchemaType(annotation) ==
    IF annotation # "empty"
    THEN CASE annotation = "int" -> "integer"
           [] annotation = "float" -> "number"
           [] annotation = "bool" -> "boolean"
           [] annotation = "list" -> "array"
           [] OTHER -> "string"
    ELSE "string"

\* a required list that takes every parameter
RequiredAll(fn) == Params(fn)

\* lines 89-90: the parameters without a default, in declaration order
Required(fn) == SelectSeq(Params(fn), LAMBDA p : p \notin Defaulted(fn))

\* line 59
Description(fn) ==
    IF DocLines(fn) # <<>> THEN DocLines(fn)[1] ELSE "Function " \o FnName(fn)

\* lines 55-90: the schema of one callable
ToolSchema(fn) ==
    [type |-> "function",
     function |->
        [name |-> FnName(fn),
         description |-> Description(fn),
         parameters |->
            [type |-> "object",
             properties |-> [p \in ParamSet(fn) |->
                                [type |-> SchemaType(Annotation(fn, p)),
                                 description |-> "Parameter " \o p]],
             required |-> Required(fn)]]]

\* lines 45-94: one schema per callable, in the order of self.tools
GenerateToolSchemas(registry) ==
    [i \in 1..Len(registry) |-> ToolSchema(registry[i])]

(***************************************************************************)
(* Structured output: json.loads and the contract's validation.            *)
(***************************************************************************)
NoSchema == [t |-> "NoneType"]

\* The contract of the module's example: four fields, all required.
WeatherResponse ==
    [t |-> "contract", name |-> "WeatherResponse",
     fields |-> <<[name |-> "location", type |-> "str"],
                  [name |-> "temperature", type |-> "float"],
                  [name |-> "units", type |-> "str"],
                  [name |-> "description", type |-> "str"]>>]

ValidText == "{\"location\": \"Oslo\", \"temperature\": 4, \"units\": \"C\", \"description\": \"cold\"}"
PartialText == "{\"location\": \"Oslo\"}"

Weather ==
    [location |-> PyStr("Oslo"), temperature |-> PyInt(4),
     units |-> PyStr("C"), description |-> PyStr("cold")]

\* json.loads(text), on the texts the model's endpoint answers with; any
\* other string (the empty one included) is not JSON.
JsonLoads(text) ==
    IF text.t # "str"
    THEN Raise("TypeError", "the JSON object must be str, bytes or bytearray, not "
                             \o text.t)
    ELSE CASE text.v = ValidText -> Return(PyDict(Weather))
           [] text.v = PartialText -> Return(PyDict([location |-> PyStr("Oslo")]))
           [] text.v = "[1]" -> Return(PyList(<<PyInt(1)>>))
           [] text.v = "5" -> Return(PyInt(5))
           [] text.v = "null" -> Return(None)
           [] OTHER -> Raise("JSONDecodeError", "Expecting value: line 1 column 1 (char 0)")

\* Whether value v is accepted for a field of the given type.
FieldOk(type, v) ==
    CASE type = "str" -> v.t = "str"
      [] type = "float" -> v.t = "int"
      [] OTHER -> FALSE

\* schema(**parsed): the mapping is expanded as the contract's fields and
\* validated; keys that are no field are ignored.
Construct(schema, parsed) ==
    IF schema.t # "contract"
    THEN Raise("TypeError", "'" \o schema.t \o "' object is not callable")
    ELSE IF parsed.t # "dict"
    THEN Raise("TypeError", schema.name \o "() argument after ** must be a mapping, not "
                             \o parsed.t)
    ELSE LET bad == {i \in 1..Len(schema.fields) :
                        \/ schema.fields[i].name \notin DOMAIN parsed.v
                        \/ ~FieldOk(schema.fields[i].type, parsed.v[schema.fields[i].name])}
         IN  IF bad # {}
             THEN Raise("ValidationError", ToString(Cardinality(bad))
                                            \o " validation error for " \o schema.name)
             ELSE Return(PyModel([k \in {schema.fields[i].name : i \in 1..Len(schema.fields)}
                                     |-> parsed.v[k]]))

\* a handler that names the validation fault only
ParseFaultCaughtNarrow(type) == IsSubclass(type, "ValidationError")

\* `except (json.JSONDecodeError, ValueError)` of line 177
ParseFaultCaught(type) ==
    IsSubclass(type, "JSONDecodeError") \/ IsSubclass(type, "ValueError")

\* a handler that names the transport's faults only
InvokeFaultCaughtTransportOnly(type) == IsSubclass(type, "RequestException")

\* `except Exception` of line 182
InvokeFaultCaught(type) == IsSubclass(type, "Exception")

\* a handler that reports the fault's own text, with no prefix
FailureResultBare(exc) ==
    [error |-> exc.msg,
     message |-> None, tool_calls |-> <<>>, structured_output |-> None]

\* a handler that hands the fault's text back as the message
FailureResultWithMessage(exc) ==
    [error |-> "Failed to invoke model: " \o exc.msg,
     message |-> PyStr(exc.msg), tool_calls |-> <<>>, structured_output |-> None]

\* the dict built by the handler of lines 183-188
FailureResult(exc) ==
    [error |-> "Failed to invoke model: " \o exc.msg,
     message |-> None, tool_calls |-> <<>>, structured_output |-> None]

\* a guard that forgets to test for the contract
ShouldParseAnyMessage(schema, message) == Truthy(message)

\* line 173: `if self.output_schema and result['message']`
ShouldParse(schema, message) == schema # NoSchema /\ Truthy(message)

\* lines 172-178: the value of result['structured_output'] after the block,
\* or the fault that leaves it
StructuredOutput(schema, message) ==
    IF ShouldParse(schema, message)
    THEN LET parsed == JsonLoads(message)
             built == IF parsed.ok THEN Construct(schema, parsed.val) ELSE parsed
         IN  IF built.ok THEN built
             ELSE IF ParseFaultCaught(built.exc.type)
                  THEN Return(PyStr("Failed to parse structured output: " \o built.exc.msg))
                  ELSE built
    ELSE Return(None)

(***************************************************************************)
(* The inputs: the constructor's arguments, the prompts, and what the      *)
(* endpoint may answer.                                                    *)
(***************************************************************************)
\* the most tool-call instructions one response carries
MaxCalls == 2

\* the tool lists an agent is constructed with
ToolLists ==
    {<<>>, <<"calculate_sum", "get_product">>,
     <<"calculate_sum", "difference">>, <<"difference", "calculate_sum">>,
     <<"scale_values", "top_items">>}

\* the proxies argument: left out by the caller
ProxyArgs == {None}

DefaultEndpoint == "http://localhost:11434/api/chat"

Schemas == {NoSchema, WeatherResponse}

Prompts == {"What's the Sum of 11 and 22?"}

\* the faults of requests.post, raise_for_status and response.json
TransportFaults ==
    {[type |-> "ConnectionError", msg |-> ""],
     [type |-> "HTTPError", msg |-> "500 Server Error: Internal Server Error"],
     [type |-> "RequestsJSONDecodeError", msg |-> "Expecting value: line 1 column 1 (char 0)"]}

Args23 == PyDict([a |-> PyInt(2), b |-> PyInt(3)])

ToolCall(name, arguments) ==
    PyDict([function |-> PyDict([name |-> name, arguments |-> arguments])])

\* well-formed tool-call instructions
GoodEntries ==
    {ToolCall(PyStr("calculate_sum"), Args23),
     ToolCall(PyStr("calculate_sum"), PyStr("{\"a\": 2, \"b\": 3}")),
     ToolCall(PyStr("calculate_sum"), PyDict([a |-> PyInt(2), b |-> PyInt(3), c |-> PyInt(1)])),
     ToolCall(PyStr("get_product"), PyDict([a |-> PyStr("x"), b |-> PyInt(3)])),
     ToolCall(PyStr("Calculate_Sum"), Args23)}

\* instructions lacking function, name or arguments
BadEntries ==
    {PyDict(<<>>),
     PyDict([function |-> PyDict([arguments |-> Args23])]),
     PyDict([function |-> PyDict([name |-> PyStr("calculate_sum")])])}

Entries == GoodEntries \cup BadEntries

\* the sequences over S of the lengths lo..hi
SeqsOf(S, lo, hi) == UNION {[1..k -> S] : k \in lo..hi}

\* message.tool_calls, when the key is present: no list, or a short one
ToolCallValues ==
    {None, PyStr("no"), PyDict(<<>>)}
        \cup {PyList(q) : q \in SeqsOf(Entries, 0, 1)}

\* ... or a list of several instructions
LongToolCallValues == {PyList(q) : q \in SeqsOf(Entries, 2, MaxCalls)}

\* message.content, when the key is present
ContentValues ==
    {None, PyInt(5), PyStr(""), PyStr("hello"), PyStr("[1]"),
     PyStr(ValidText), PyStr(PartialText)}

\* the contents that come with a list of several instructions
LongContentValues == {PyStr(""), PyStr("[1]")}

Messages ==
    {PyDict(<<>>)}
        \cup {PyDict([content |-> c]) : c \in ContentValues}
        \cup {PyDict([tool_calls |-> tc]) : tc \in {None, PyList(<<>>)}}
        \cup {PyDict([content |-> c, tool_calls |-> tc]) :
                c \in ContentValues, tc \in ToolCallValues}
        \cup {PyDict([content |-> c, tool_calls |-> tc]) :
                c \in LongContentValues, tc \in LongToolCallValues}

\* the decoded bodies of 2xx answers
Bodies ==
    {None, PyList(<<>>), PyDict(<<>>), PyDict([message |-> None]),
     PyDict([message |-> PyStr("hi")])}
        \cup {PyDict([message |-> m]) : m \in Messages}

NoValue == [t |-> "unset"]
NoFault == [type |-> "", msg |-> ""]

\* the invokes the history counts
MaxInvocations == 2

\* the number of concurrent callers of one agent
NumCalls == 2

CallIds == 1..NumCalls

\* the locals of an invoke that has not been called yet
NewFrame ==
    [pc |-> "idle", response |-> NoValue, result |-> NoValue, calls |-> <<>>,
     idx |-> 0, ret |-> NoValue, escaped |-> NoFault]

\* no concurrent caller is under way, and the caller's list is as passed
OthersAtRest ==
    /\ frames = [c \in CallIds |-> NewFrame]
    /\ caller_edits = 0

\* the extractor holds no facts
SecAtRest ==
    /\ us_gaap = <<>>
    /\ date_range = NoValue
    /\ metrics_data = <<>>

(***************************************************************************)
(* The agent after construction (lines 31-36), no invoke under way.        *)
(***************************************************************************)
Constructed ==
    /\ tools \in ToolLists
    /\ output_schema \in Schemas
    /\ tool_schemas = GenerateToolSchemas(tools)
    /\ model_name = "llama3.2:1b"
    /\ endpoint = DefaultEndpoint
    /\ \E arg \in ProxyArgs :
          proxies = IF arg # None THEN arg
                    ELSE PyDict([http |-> PyStr(""), https |-> PyStr("")])
    /\ request = NoValue
    /\ sent = 0
    /\ pc = "idle"
    /\ prompt = ""
    /\ response = NoValue
    /\ result = NoValue
    /\ calls = <<>>
    /\ idx = 0
    /\ executed = <<>>
    /\ ret = NoValue
    /\ escaped = NoFault
    /\ invocations = 0

\* no download, no derived metrics, no workbook and no dashboard under way
AppsAtRest ==
    /\ download = NoValue
    /\ derived = NoValue
    /\ excel = NoValue
    /\ chat = NoValue

\* the agent alone: no concurrent caller, no edit of the list, no extractor
Init == Constructed /\ OthersAtRest /\ SecAtRest /\ AppsAtRest

\* A fault raised inside the try of invoke: the handler of line 182 turns it
\* into the failure dict, or it leaves invoke.
Fail(exc) ==
    /\ pc' = "done"
    /\ ret' = IF InvokeFaultCaught(exc.type) THEN FailureResult(exc) ELSE NoValue
    /\ escaped' = IF InvokeFaultCaught(exc.type) THEN NoFault ELSE exc

\* a test that sends the tools key whatever the schema list holds
ToolsIncludedAlways(schemas) == TRUE

\* line 135: `if self.tool_schemas`
ToolsIncluded(schemas) == schemas # <<>>

\* line 139: `if self.output_schema`
FormatIncluded(schema) == schema # NoSchema

\* self.output_schema.model_json_schema()
ModelJsonSchema(schema) ==
    [title |-> schema.name, type |-> "object",
     properties |-> [k \in {schema.fields[i].name : i \in 1..Len(schema.fields)} |->
                        [type |-> IF \E i \in 1..Len(schema.fields) :
                                        schema.fields[i].name = k /\ schema.fields[i].type = "str"
                                  THEN "string" ELSE "number"]],
     required |-> [i \in 1..Len(schema.fields) |-> schema.fields[i].name]]

\* lines 128-140: request_params for prompt p
RequestParams(p) ==
    (IF ToolsIncluded(tool_schemas) THEN "tools" :> tool_schemas ELSE <<>>)
    @@ (IF FormatIncluded(output_schema)
        THEN "format" :> ModelJsonSchema(output_schema) ELSE <<>>)
    @@ [model |-> model_name,
        messages |-> <<[role |-> "user", content |-> p]>>,
        stream |-> FALSE]

\* invoke(p) is called: lines 126-147, up to the answer of the endpoint
Invoke(p) ==
    /\ pc \in {"idle", "done"}
    /\ pc' = "request"
    /\ prompt' = p
    /\ request' = [url |-> endpoint, json |-> RequestParams(p), proxies |-> proxies]
    /\ sent' = 1
    /\ response' = NoValue
    /\ result' = NoValue
    /\ calls' = <<>>
    /\ idx' = 0
    /\ executed' = <<>>
    /\ ret' = NoValue
    /\ escaped' = NoFault
    /\ invocations' = IF invocations < MaxInvocations THEN invocations + 1 ELSE invocations
    /\ UNCHANGED <<others, agent>>

\* a handler that posts the request once more before it gives up
TransportFailureRetrying(exc) ==
    /\ pc = "request"
    /\ IF sent < 2
       THEN /\ sent' = sent + 1
            /\ UNCHANGED <<pc, ret, escaped>>
       ELSE /\ Fail(exc)
            /\ UNCHANGED sent
    /\ UNCHANGED <<others, invocations, agent, request, prompt, response, result, calls, idx, executed>>

\* lines 143-149 raise: no connection, a non-2xx status, a body that is no JSON
TransportFailure(exc) ==
    /\ pc = "request"
    /\ Fail(exc)
    /\ UNCHANGED <<others, invocations, agent, request, sent, prompt, response, result, calls, idx, executed>>

\* line 149: the body of a 2xx answer decodes to `body`
Respond(body) ==
    /\ pc = "request"
    /\ response' = body
    /\ pc' = "extract"
    /\ UNCHANGED <<others, invocations, agent, request, sent, prompt, result, calls, idx, executed, ret, escaped>>

\* lines 151-155
ExtractMessage ==
    /\ pc = "extract"
    /\ LET m == GetItem(response, "message")
           c == IF m.ok THEN GetItem(m.val, "content") ELSE m
       IN  IF c.ok
           THEN /\ result' = [message |-> c.val, tool_calls |-> <<>>,
                              structured_output |-> None]
                /\ pc' = "tool_calls"
                /\ UNCHANGED <<ret, escaped>>
           ELSE /\ Fail(c.exc)
                /\ UNCHANGED result
    /\ UNCHANGED <<others, invocations, agent, request, sent, prompt, response, calls, idx, executed>>

\* lines 158-159: the test for the key and the start of the loop
BeginToolCalls ==
    /\ pc = "tool_calls"
    /\ LET message == response.v["message"]
           has == Contains("tool_calls", message)
           items == IF has.ok /\ has.val
                    THEN Iter(message.v["tool_calls"])
                    ELSE Return(<<>>)
       IN  IF ~has.ok
           THEN Fail(has.exc) /\ UNCHANGED <<calls, idx>>
           ELSE IF ~items.ok
           THEN Fail(items.exc) /\ UNCHANGED <<calls, idx>>
           ELSE /\ calls' = items.val
                /\ idx' = 1
                /\ pc' = IF Len(items.val) = 0 THEN "structured" ELSE "loop"
                /\ UNCHANGED <<ret, escaped>>
    /\ UNCHANGED <<others, invocations, agent, request, sent, prompt, response, result, executed>>

\* lines 160-170: one iteration of the loop, on calls[idx]
ToolCallStep ==
    /\ pc = "loop"
    /\ LET tool_call == calls[idx]
           fn == GetItem(tool_call, "function")
           tool_name == IF fn.ok THEN GetItem(fn.val, "name") ELSE fn
           tool_args == IF tool_name.ok THEN GetItem(fn.val, "arguments") ELSE tool_name
           pos == IF tool_args.ok THEN Lookup(tools, tool_name.val) ELSE 0
           tool_result == IF tool_args.ok
                          THEN ExecuteTool(tools, tool_name.val, tool_args.val)
                          ELSE tool_args
       IN  /\ executed' = IF pos = 0 THEN executed
                          ELSE Append(executed, [pos |-> pos, fn |-> tools[pos],
                                                 arguments |-> tool_args.val])
           /\ IF tool_result.ok
              THEN /\ result' = [result EXCEPT !.tool_calls =
                                   Append(@, [tool |-> tool_name.val,
                                              arguments |-> tool_args.val,
                                              result |-> tool_result.val])]
                   /\ idx' = idx + 1
                   /\ pc' = IF idx + 1 > Len(calls) THEN "structured" ELSE "loop"
                   /\ UNCHANGED <<ret, escaped>>
              ELSE /\ Fail(tool_result.exc)
                   /\ UNCHANGED <<result, idx>>
    /\ UNCHANGED <<others, invocations, agent, request, sent, prompt, response, calls>>

\* a return that drops the contract once an output was built from it
FinishConsumingContract ==
    /\ pc = "structured"
    /\ LET so == StructuredOutput(output_schema, result.message)
       IN  IF so.ok
           THEN /\ result' = [result EXCEPT !.structured_output = so.val]
                /\ ret' = result'
                /\ pc' = "done"
                /\ output_schema' = IF so.val # None THEN NoSchema ELSE output_schema
                /\ UNCHANGED escaped
           ELSE /\ Fail(so.exc)
                /\ UNCHANGED <<result, output_schema>>
    /\ UNCHANGED <<others, invocations, tools, tool_schemas, model_name, endpoint, proxies>>
    /\ UNCHANGED <<request, sent, prompt, response, calls, idx, executed>>

\* lines 172-180: the structured output, and the return
Finish ==
    /\ pc = "structured"
    /\ LET so == StructuredOutput(output_schema, result.message)
       IN  IF so.ok
           THEN /\ result' = [result EXCEPT !.structured_output = so.val]
                /\ ret' = result'
                /\ pc' = "done"
                /\ UNCHANGED escaped
           ELSE /\ Fail(so.exc)
                /\ UNCHANGED result
    /\ UNCHANGED <<others, invocations, agent, request, sent, prompt, response, calls, idx, executed>>

Next ==
    \/ \E p \in Prompts : Invoke(p)
    \/ \E exc \in TransportFaults : TransportFailure(exc)
    \/ \E body \in Bodies : Respond(body)
    \/ ExtractMessage
    \/ BeginToolCalls
    \/ ToolCallStep
    \/ Finish

Spec == Init /\ [][Next]_vars

(***************************************************************************)
(* The caller and its list.  Line 32, `self.tools = tools`, binds the      *)
(* attribute to the very list object the caller passed: what the caller    *)
(* does to that list between two invokes is done to self.tools, while      *)
(* self.tool_schemas stays as line 36 computed it.                         *)
(***************************************************************************)
\* the edits the caller makes
MaxEdits == 1

\* the callables the caller appends
CallerCallables == {"get_product"}

CallerEdits(list) ==
    /\ pc \in {"idle", "done"}
    /\ caller_edits < MaxEdits
    /\ caller_edits' = caller_edits + 1
    /\ tools' = list
    /\ UNCHANGED <<output_schema, tool_schemas, model_name, endpoint, proxies>>
    /\ UNCHANGED <<request, sent, pc, prompt, response, result, calls, idx,
                   executed, ret, escaped, invocations, frames, sec, apps>>

\* tools.append(fn), by the caller
CallerAppends(fn) == CallerEdits(Append(tools, fn))

\* del tools[i], by the caller
CallerRemoves(i) ==
    /\ i \in 1..Len(tools)
    /\ CallerEdits([k \in 1..(Len(tools) - 1) |-> IF k < i THEN tools[k] ELSE tools[k + 1]])

\* tools.reverse(), by the caller
CallerReorders ==
    /\ Len(tools) > 1
    /\ CallerEdits([k \in 1..Len(tools) |-> tools[Len(tools) + 1 - k]])

NextCaller ==
    \/ Next
    \/ \E fn \in CallerCallables : CallerAppends(fn)
    \/ \E i \in 1..2 : CallerRemoves(i)
    \/ CallerReorders

SpecCaller == Init /\ [][NextCaller]_vars

(***************************************************************************)
(* invoke as a function of its locals.  A frame holds the locals of one    *)
(* call of invoke; StepFrame is the next step of lines 151-188 on a frame, *)
(* reading nothing but the frame, the registry and the contract.           *)
(***************************************************************************)
\* the handler of lines 182-188, or the fault leaving invoke
FailFrame(f, exc) ==
    [f EXCEPT !.pc = "done",
              !.ret = IF InvokeFaultCaught(exc.type) THEN FailureResult(exc) ELSE NoValue,
              !.escaped = IF InvokeFaultCaught(exc.type) THEN NoFault ELSE exc]

\* lines 151-155
ExtractFrame(f) ==
    LET m == GetItem(f.response, "message")
        c == IF m.ok THEN GetItem(m.val, "content") ELSE m
    IN  IF c.ok
        THEN [f EXCEPT !.result = [message |-> c.val, tool_calls |-> <<>>,
                                   structured_output |-> None],
                       !.pc = "tool_calls"]
        ELSE FailFrame(f, c.exc)

\* lines 158-159
BeginFrame(f) ==
    LET message == f.response.v["message"]
        has == Contains("tool_calls", message)
        items == IF has.ok /\ has.val
                 THEN Iter(message.v["tool_calls"])
                 ELSE Return(<<>>)
    IN  IF ~has.ok THEN FailFrame(f, has.exc)
        ELSE IF ~items.ok THEN FailFrame(f, items.exc)
        ELSE [f EXCEPT !.calls = items.val, !.idx = 1,
                       !.pc = IF Len(items.val) = 0 THEN "structured" ELSE "loop"]

\* lines 160-170
LoopFrame(f, registry) ==
    LET tool_call == f.calls[f.idx]
        fn == GetItem(tool_call, "function")
        tool_name == IF fn.ok THEN GetItem(fn.val, "name") ELSE fn
        tool_args == IF tool_name.ok THEN GetItem(fn.val, "arguments") ELSE tool_name
        tool_result == IF tool_args.ok
                       THEN ExecuteTool(registry, tool_name.val, tool_args.val)
                       ELSE tool_args
    IN  IF tool_result.ok
        THEN [f EXCEPT !.result.tool_calls =
                           Append(@, [tool |-> tool_name.val,
                                      arguments |-> tool_args.val,
                                      result |-> tool_result.val]),
                       !.idx = f.idx + 1,
                       !.pc = IF f.idx + 1 > Len(f.calls) THEN "structured" ELSE "loop"]
        ELSE FailFrame(f, tool_result.exc)

\* lines 172-180
FinishFrame(f, schema) ==
    LET so == StructuredOutput(schema, f.result.message)
    IN  IF so.ok
        THEN [f EXCEPT !.result.structured_output = so.val,
                       !.ret = [f.result EXCEPT !.structured_output = so.val],
                       !.pc = "done"]
        ELSE FailFrame(f, so.exc)

\* the frame after the next step of invoke
StepFrame(f, registry, schema) ==
    CASE f.pc = "extract" -> ExtractFrame(f)
      [] f.pc = "tool_calls" -> BeginFrame(f)
      [] f.pc = "loop" -> LoopFrame(f, registry)
      [] f.pc = "structured" -> FinishFrame(f, schema)
      [] OTHER -> f

RECURSIVE RunFrame(_, _, _)
\* invoke run to its end, with no other call beside it
RunFrame(f, registry, schema) ==
    IF f.pc \in {"idle", "request", "done"} THEN f
    ELSE RunFrame(StepFrame(f, registry, schema), registry, schema)

\* what invoke gives, alone, for the decoded body `body`
InvokeAlone(registry, schema, body) ==
    RunFrame([NewFrame EXCEPT !.pc = "extract", !.response = body], registry, schema)

\* what invoke gives, alone, when the endpoint fails with exc
InvokeAloneFailing(exc) == FailFrame(NewFrame, exc)

(***************************************************************************)
(* Concurrent callers.  NumCalls threads call invoke on one agent; each    *)
(* has its own frame (the locals of lines 128-180 live on the thread's     *)
(* stack), all read self.tools and self.output_schema, and their steps     *)
(* interleave in every order.                                              *)
(***************************************************************************)
\* the decoded bodies the concurrent callers receive
ConcBodies ==
    {None,
     PyDict([message |-> PyDict([content |-> PyStr("hello")])]),
     PyDict([message |-> PyDict([content |-> PyStr(ValidText)])]),
     PyDict([message |-> PyDict([content |-> PyStr(""),
                                 tool_calls |-> PyList(<<ToolCall(PyStr("calculate_sum"), Args23)>>)])]),
     PyDict([message |-> PyDict([content |-> PyStr("[1]"),
                                 tool_calls |-> PyList(<<ToolCall(PyStr("get_product"), Args23),
                                                         PyDict(<<>>)>>)])])}

\* one agent with the two example tools and the example contract
InitConc ==
    /\ Init
    /\ tools = <<"calculate_sum", "get_product">>
    /\ output_schema = WeatherResponse

\* what a step of a concurrent caller leaves alone
ConcFrame ==
    UNCHANGED <<agent, request, sent, pc, prompt, response, result, calls, idx,
                executed, ret, escaped, invocations, caller_edits, sec, apps>>

\* caller c calls invoke and posts its request
ConcInvoke(c) ==
    /\ frames[c].pc = "idle"
    /\ frames' = [frames EXCEPT ![c].pc = "request"]
    /\ ConcFrame

\* lines 143-149 raise in caller c
ConcTransportFailure(c, exc) ==
    /\ frames[c].pc = "request"
    /\ frames' = [frames EXCEPT ![c] = FailFrame(@, exc)]
    /\ ConcFrame

\* line 149 in caller c: the body of its answer decodes to `body`
ConcRespond(c, body) ==
    /\ frames[c].pc = "request"
    /\ frames' = [frames EXCEPT ![c].response = body, ![c].pc = "extract"]
    /\ ConcFrame

\* a step that keeps the dict `result` on the agent, one for all callers
ConcStepSharedResult(c) ==
    /\ frames[c].pc \in {"extract", "tool_calls", "loop", "structured"}
    /\ LET holders == {d \in CallIds \ {c} : frames[d].result # NoValue}
           f == IF holders = {} \/ frames[c].result = NoValue
                THEN frames[c]
                ELSE [frames[c] EXCEPT !.result = frames[CHOOSE d \in holders : TRUE].result]
       IN  frames' = [frames EXCEPT ![c] = StepFrame(f, tools, output_schema)]
    /\ ConcFrame

\* the next step of lines 151-188 in caller c
ConcStep(c) ==
    /\ frames[c].pc \in {"extract", "tool_calls", "loop", "structured"}
    /\ frames' = [frames EXCEPT ![c] = StepFrame(@, tools, output_schema)]
    /\ ConcFrame

NextConc ==
    \/ \E c \in CallIds : ConcInvoke(c)
    \/ \E c \in CallIds, exc \in TransportFaults : ConcTransportFailure(c, exc)
    \/ \E c \in CallIds, body \in ConcBodies : ConcRespond(c, body)
    \/ \E c \in CallIds : ConcStep(c)

SpecConc == InitConc /\ [][NextConc]_vars

(***************************************************************************)
(* The SEC extractor: extract_financial_metrics of sec_downloader_1.py     *)
(* (lines 146-225) and of sec_downloader_2.py (lines 200-337).  us_gaap    *)
(* maps a tag to its unit types, in the order of the JSON document, each a *)
(* list of entries; an entry is a dict with some of the keys end, form and *)
(* val.  A date "YYYY-MM-DD" is the number YYYYMMDD: the program compares  *)
(* the strings, and on well-formed dates that is the order of the numbers. *)
(***************************************************************************)
\* the longest list of entries of one unit type
MaxEntries == 2

\* gaap_mapping, cut to two metrics: the tags tried for each, in order
GaapMapping ==
    <<[metric |-> "NetIncome", tags |-> <<"NetIncomeLoss", "ProfitLoss">>],
      [metric |-> "TotalLoans", tags |-> <<"LoansAndLeasesReceivableNetOfAllowance">>]>>

MetricNames == {GaapMapping[i].metric : i \in 1..Len(GaapMapping)}

\* sec_downloader_1: self.target_metrics (lines 58-74) names metrics the
\* mapping has no tags for; BookValuePerShare is the first of them
TargetMetrics1 == <<"NetIncome", "TotalLoans", "BookValuePerShare">>

\* sec_downloader_2, line 330
CoreMetrics2 == <<"NetIncome", "TotalRevenue", "TotalAssets", "ShareholdersEquity">>

\* lines 206 and 208 of version 1, 316 and 318 of version 2: the entry is of the
\* period, has a val, and was filed on a 10-Q or a 10-K
Qualifies(entry, period_end) ==
    /\ "end" \in DOMAIN entry /\ entry.end = period_end
    /\ "val" \in DOMAIN entry
    /\ "form" \in DOMAIN entry /\ entry.form \in {"10-Q", "10-K"}

\* the entry at which the loop over one unit type breaks; 0 if it runs out
BreakAt(entries, period_end) ==
    LET hits == {i \in 1..Len(entries) : Qualifies(entries[i], period_end)}
    IN  IF hits = {} THEN 0 ELSE CHOOSE i \in hits : \A j \in hits : i <= j

\* version 1, lines 205-210: `value` after the loop over one unit type
ScanEntries1(entries, period_end, value) ==
    LET i == BreakAt(entries, period_end)
    IN  IF i = 0 THEN value ELSE entries[i].val

\* a loop that reads every entry of the period and keeps a 10-Q value over
\* a 10-K value
ScanEntries2PreferQuarterly(entries, period_end, value) ==
    LET hits == {i \in 1..Len(entries) : Qualifies(entries[i], period_end)}
        quarterly == {i \in hits : entries[i].form = "10-Q"}
        first(S) == CHOOSE i \in S : \A j \in S : i <= j
    IN  IF hits = {} THEN value
        ELSE IF quarterly # {} THEN entries[first(quarterly)].val
        ELSE entries[first(hits)].val

\* version 2, lines 315-321: the same loop, with the test of line 319
ScanEntries2(entries, period_end, value) ==
    LET i == BreakAt(entries, period_end)
    IN  IF i = 0 THEN value
        ELSE IF value = None \/ entries[i].form = "10-Q" THEN entries[i].val
        ELSE value

ScanEntries(version, entries, period_end, value) ==
    IF version = 1 THEN ScanEntries1(entries, period_end, value)
    ELSE ScanEntries2(entries, period_end, value)

RECURSIVE ScanUnits(_, _, _, _, _)
\* the loop over the unit types of one tag, from unit k on
ScanUnits(version, units, k, period_end, value) ==
    IF k > Len(units) THEN value
    ELSE LET v == ScanEntries(version, units[k], period_end, value)
         IN  IF v # None THEN v
             ELSE ScanUnits(version, units, k + 1, period_end, v)

RECURSIVE ScanTags(_, _, _, _, _, _)
\* the loop over possible_tags, from tag k on
ScanTags(version, gaap, possible_tags, k, period_end, value) ==
    IF k > Len(possible_tags) THEN value
    ELSE IF possible_tags[k] \in DOMAIN gaap
         THEN LET v == ScanUnits(version, gaap[possible_tags[k]], 1, period_end, value)
              IN  IF v # None THEN v
                  ELSE ScanTags(version, gaap, possible_tags, k + 1, period_end, v)
         ELSE ScanTags(version, gaap, possible_tags, k + 1, period_end, value)

\* the value of one metric for one period end
SelectValue(version, gaap, possible_tags, period_end) ==
    ScanTags(version, gaap, possible_tags, 1, period_end, None)

\* all_periods: the period ends in range, over the tags of the mapping
AllPeriods(gaap, range) ==
    {e.end : e \in
        {en \in UNION {UNION {{gaap[tag][u][i] : i \in 1..Len(gaap[tag][u])} :
                              u \in 1..Len(gaap[tag])} :
                       tag \in DOMAIN gaap \cap
                           UNION {{GaapMapping[m].tags[k] : k \in 1..Len(GaapMapping[m].tags)} :
                                  m \in 1..Len(GaapMapping)}} :
            /\ "end" \in DOMAIN en
            /\ range.start <= en.end /\ en.end <= range.end}}

RECURSIVE SortedDescending(_)
\* an order that puts the latest period first
SortedDescending(S) ==
    IF S = {} THEN <<>>
    ELSE LET greatest == CHOOSE x \in S : \A y \in S : y <= x
         IN  <<greatest>> \o SortedDescending(S \ {greatest})

RECURSIVE Sorted(_)
\* sorted(S), ascending
Sorted(S) ==
    IF S = {} THEN <<>>
    ELSE LET least == CHOOSE x \in S : \A y \in S : x <= y
         IN  <<least>> \o Sorted(S \ {least})

\* period_data for one period end
PeriodData(version, gaap, period_end) ==
    [k \in {"Datetime", "CompanyName"} \cup MetricNames |->
        CASE k = "Datetime" -> PyInt(period_end)
          [] k = "CompanyName" -> PyStr("Unknown")
          [] OTHER ->
                LET m == CHOOSE i \in 1..Len(GaapMapping) : GaapMapping[i].metric = k
                IN  SelectValue(version, gaap, GaapMapping[m].tags, period_end)]

RECURSIVE AnyPresent1(_, _)
\* version 1, line 219: any(period_data[metric] is not None ...), from k on
AnyPresent1(period_data, k) ==
    IF k > Len(TargetMetrics1) THEN "skip"
    ELSE IF TargetMetrics1[k] \notin DOMAIN period_data THEN "KeyError"
    ELSE IF period_data[TargetMetrics1[k]] # None THEN "keep"
    ELSE AnyPresent1(period_data, k + 1)

\* version 2, line 331: any(period_data.get(metric) is not None ...)
AnyPresent2(period_data) ==
    IF \E k \in 1..Len(CoreMetrics2) :
            /\ CoreMetrics2[k] \in DOMAIN period_data
            /\ period_data[CoreMetrics2[k]] # None
    THEN "keep" ELSE "skip"

RECURSIVE ExtractFrom(_, _, _, _, _)
\* the loop over sorted(all_periods) from period k on; a fault ends it, and
\* the handler of the enclosing try returns what was collected
ExtractFrom(version, gaap, periods, k, collected) ==
    IF k > Len(periods) THEN collected
    ELSE LET period_data == PeriodData(version, gaap, periods[k])
             verdict == IF version = 1 THEN AnyPresent1(period_data, 1)
                        ELSE AnyPresent2(period_data)
         IN  CASE verdict = "keep" ->
                    ExtractFrom(version, gaap, periods, k + 1, Append(collected, period_data))
               [] verdict = "skip" ->
                    ExtractFrom(version, gaap, periods, k + 1, collected)
               [] OTHER -> collected

\* extract_financial_metrics of sec_downloader_<version>
ExtractFinancialMetrics(version, gaap, range) ==
    ExtractFrom(version, gaap, Sorted(AllPeriods(gaap, range)), 1, <<>>)

\* entries of a first quarter, of a second, of a period out of range, and
\* one with no period
SecEntries ==
    {[end |-> 20230331, form |-> "10-Q", val |-> PyInt(1)],
     [end |-> 20230331, form |-> "10-K", val |-> PyInt(2)],
     [end |-> 20230331, form |-> "8-K", val |-> PyInt(3)],
     [end |-> 20230331, form |-> "10-Q", val |-> None],
     [end |-> 20230331, form |-> "10-K"],
     [end |-> 20230630, form |-> "10-Q", val |-> PyInt(4)],
     [end |-> 20991231, form |-> "10-K", val |-> PyInt(5)],
     [form |-> "10-Q", val |-> PyInt(6)]}

\* the unit types of the first tag of NetIncome
NetIncomeLossUnits ==
    {<<q>> : q \in SeqsOf(SecEntries, 0, MaxEntries)}
        \cup {<<q, <<[end |-> 20230331, form |-> "10-K", val |-> PyInt(7)]>> >> :
                q \in SeqsOf(SecEntries, 1, 1)}

\* the unit types of a tag the document may lack: <<>> when it does
OtherUnits ==
    {<<>>,
     << <<[end |-> 20230331, form |-> "10-Q", val |-> PyInt(8)]>> >>,
     << <<[end |-> 20230630, form |-> "10-K", val |-> PyInt(9)]>> >>}

\* the documents: NetIncomeLoss always, the two other tags when given
GaapDocument(net, profit, loans) ==
    [tag \in {"NetIncomeLoss"}
                \cup (IF profit = <<>> THEN {} ELSE {"ProfitLoss"})
                \cup (IF loans = <<>> THEN {}
                      ELSE {"LoansAndLeasesReceivableNetOfAllowance"}) |->
        CASE tag = "NetIncomeLoss" -> net
          [] tag = "ProfitLoss" -> profit
          [] OTHER -> loans]

\* start_date and end_date: the defaults of download_bank_data
DateRanges == {[start |-> 20190101, end |-> 20251231]}

Versions == {1, 2}

\* the records version returned, once it has
Records(version) == metrics_data[version].records

\* the documents the extractors are given
GaapDocuments ==
    {GaapDocument(net, profit, loans) :
        net \in NetIncomeLossUnits, profit \in OtherUnits, loans \in OtherUnits}

\* an extractor of each version holding the facts of one company, nothing
\* extracted yet
InitSec ==
    /\ Constructed
    /\ tools = <<>> /\ output_schema = NoSchema
    /\ OthersAtRest
    /\ AppsAtRest
    /\ us_gaap \in GaapDocuments
    /\ date_range \in DateRanges
    /\ metrics_data = [version \in Versions |-> [returned |-> FALSE, records |-> <<>>]]

\* extract_financial_metrics(company_facts, start_date, end_date) of
\* sec_downloader_<version> is called and returns
Extract(version) ==
    /\ date_range # NoValue
    /\ ~metrics_data[version].returned
    /\ metrics_data' = [metrics_data EXCEPT
                           ![version] = [returned |-> TRUE,
                                         records |-> ExtractFinancialMetrics(
                                                         version, us_gaap, date_range)]]
    /\ UNCHANGED <<us_gaap, date_range, frames, caller_edits, apps>>
    /\ UNCHANGED <<agent, request, sent, pc, prompt, response, result, calls, idx,
                   executed, ret, escaped, invocations>>

NextSec == \E version \in Versions : Extract(version)

SpecSec == InitSec /\ [][NextSec]_vars

(***************************************************************************)
(* calculate_derived_metrics of sec_downloader_2.py (lines 339-377).  A    *)
(* DataFrame is its columns and its rows, a row a function from the        *)
(* columns to cells; a missing cell (None or NaN) is None, a number is a   *)
(* PyInt, and a quotient the function computes is kept exact, as PyRatio.  *)
(***************************************************************************)
\* the agent and its callers, which no method of the extractor touches
agent_side ==
    <<agent, request, sent, pc, prompt, response, result, calls, idx,
      executed, ret, escaped, invocations, frames, caller_edits>>

\* the rows of the tables the model gives to calculate_derived_metrics
MaxRows == 2

\* (n / d) * 100
PyRatio(n, d) == [t |-> "float", num |-> 100 * n.v, den |-> d.v]

\* Series.isna() and Series.notna(), on one cell
IsNa(cell) == cell = None

NotNa(cell) == cell # None

\* Series != 0, on one cell that is not missing
NonZero(cell) == cell.t # "int" \/ cell.v # 0

\* df[c] raises KeyError unless c is a column
HasColumns(df, cs) == cs \subseteq {df.columns[i] : i \in 1..Len(df.columns)}

\* df.loc[mask, column] = value, row by row: mask and value are given for
\* every row
Assign(df, mask, column, value) ==
    [df EXCEPT !.rows = [r \in 1..Len(df.rows) |->
                            IF mask[r] THEN [df.rows[r] EXCEPT ![column] = value[r]]
                            ELSE df.rows[r]]]

\* (a / b) * 100 where the mask holds; elsewhere no value is computed
Percent(mask, a, b) == IF mask THEN PyRatio(a, b) ELSE None

\* a fill of ReturnOnEquity that does not ask whether the cell is missing
FillReturnOnEquityAlways(df) ==
    LET mask == [r \in 1..Len(df.rows) |->
                    LET row == df.rows[r]
                    IN  /\ NotNa(row["NetIncome"]) /\ NotNa(row["ShareholdersEquity"])
                        /\ NonZero(row["ShareholdersEquity"])]
    IN  Assign(df, mask, "ReturnOnEquity",
               [r \in 1..Len(df.rows) |->
                   Percent(mask[r], df.rows[r]["NetIncome"],
                           df.rows[r]["ShareholdersEquity"])])

\* lines 351-352
FillReturnOnEquity(df) ==
    LET mask == [r \in 1..Len(df.rows) |->
                    LET row == df.rows[r]
                    IN  /\ IsNa(row["ReturnOnEquity"])
                        /\ NotNa(row["NetIncome"]) /\ NotNa(row["ShareholdersEquity"])
                        /\ NonZero(row["ShareholdersEquity"])]
    IN  Assign(df, mask, "ReturnOnEquity",
               [r \in 1..Len(df.rows) |->
                   Percent(mask[r], df.rows[r]["NetIncome"],
                           df.rows[r]["ShareholdersEquity"])])

\* lines 355-356
FillReturnOnAssets(df) ==
    LET mask == [r \in 1..Len(df.rows) |->
                    LET row == df.rows[r]
                    IN  /\ IsNa(row["ReturnOnAssets"])
                        /\ NotNa(row["NetIncome"]) /\ NotNa(row["TotalAssets"])
                        /\ NonZero(row["TotalAssets"])]
    IN  Assign(df, mask, "ReturnOnAssets",
               [r \in 1..Len(df.rows) |->
                   Percent(mask[r], df.rows[r]["NetIncome"], df.rows[r]["TotalAssets"])])

\* Series.fillna(0), on one cell
FillNa0(cell) == IF IsNa(cell) THEN PyInt(0) ELSE cell

\* line 366: revenue_base, for one row
RevenueBase(row) ==
    PyInt(FillNa0(row["NetInterestIncome"]).v + FillNa0(row["NonInterestIncome"]).v)

\* lines 363-367
FillEfficiencyRatio(df) ==
    LET mask == [r \in 1..Len(df.rows) |->
                    LET row == df.rows[r]
                    IN  /\ IsNa(row["EfficiencyRatio"])
                        /\ NotNa(row["NonInterestExpense"])
                        /\ (NotNa(row["NetInterestIncome"])
                               \/ NotNa(row["NonInterestIncome"]))
                        /\ NonZero(RevenueBase(row))]
    IN  Assign(df, mask, "EfficiencyRatio",
               [r \in 1..Len(df.rows) |->
                   Percent(mask[r], df.rows[r]["NonInterestExpense"],
                           RevenueBase(df.rows[r]))])

\* calculate_derived_metrics(df): the statements in order; a column that is
\* not there raises KeyError, and the handler of line 374 returns df as the
\* statements before left it
CalculateDerivedMetrics(df) ==
    IF ~HasColumns(df, {"ReturnOnEquity", "NetIncome", "ShareholdersEquity"}) THEN df
    ELSE LET roe == FillReturnOnEquity(df) IN
    IF ~HasColumns(roe, {"ReturnOnAssets", "TotalAssets"}) THEN roe
    ELSE LET roa == FillReturnOnAssets(roe) IN
    IF ~HasColumns(roa, {"BookValuePerShare", "EfficiencyRatio", "NonInterestExpense",
                         "NetInterestIncome", "NonInterestIncome"}) THEN roa
    ELSE FillEfficiencyRatio(roa)

\* the columns of the tables of the model
DerivedColumns ==
    <<"NetIncome", "ShareholdersEquity", "TotalAssets", "NonInterestExpense",
      "NetInterestIncome", "NonInterestIncome", "TotalLoans", "ReturnOnEquity",
      "ReturnOnAssets", "BookValuePerShare", "EfficiencyRatio">>

\* a row from its base cells and its derived cells
DerivedRow(ni, se, ta, nie, nii, nonii, roe, roa, er) ==
    [c \in {DerivedColumns[i] : i \in 1..Len(DerivedColumns)} |->
        CASE c = "NetIncome" -> ni
          [] c = "ShareholdersEquity" -> se
          [] c = "TotalAssets" -> ta
          [] c = "NonInterestExpense" -> nie
          [] c = "NetInterestIncome" -> nii
          [] c = "NonInterestIncome" -> nonii
          [] c = "ReturnOnEquity" -> roe
          [] c = "ReturnOnAssets" -> roa
          [] c = "EfficiencyRatio" -> er
          [] c = "TotalLoans" -> PyInt(7)
          [] OTHER -> None]

\* rows: all inputs there; the derived cells there already; denominators of
\* zero; no numerator; one income input missing; both missing; incomes that
\* cancel
DerivedRows ==
    {DerivedRow(PyInt(6), PyInt(3), PyInt(2), PyInt(4), PyInt(1), PyInt(1), None, None, None),
     DerivedRow(PyInt(6), PyInt(3), PyInt(2), PyInt(4), PyInt(1), PyInt(1),
                PyInt(9), PyInt(9), PyInt(9)),
     DerivedRow(PyInt(6), PyInt(0), PyInt(0), PyInt(4), PyInt(0), None, None, None, None),
     DerivedRow(None, PyInt(3), PyInt(2), None, PyInt(1), PyInt(1), None, None, None),
     DerivedRow(PyInt(6), None, None, PyInt(4), PyInt(2), None, PyInt(9), None, None),
     DerivedRow(PyInt(6), PyInt(3), None, PyInt(4), None, None, None, None, None),
     DerivedRow(PyInt(6), PyInt(3), PyInt(2), PyInt(4), PyInt(1), PyInt(-1), None, None, None)}

\* row without column c
Without(row, c) == [k \in DOMAIN row \ {c} |-> row[k]]

\* the tables: all columns; or, as sec_downloader_1 builds them, without
\* EfficiencyRatio
DerivedFrames ==
    {[columns |-> DerivedColumns, rows |-> q] : q \in SeqsOf(DerivedRows, 0, MaxRows)}
        \cup {[columns |-> SelectSeq(DerivedColumns, LAMBDA c : c # "EfficiencyRatio"),
               rows |-> [r \in 1..Len(q) |-> Without(q[r], "EfficiencyRatio")]] :
                 q \in SeqsOf(DerivedRows, 1, MaxRows)}

\* a table is at hand; df0 keeps it as it was
InitDerived ==
    /\ Constructed
    /\ tools = <<>> /\ output_schema = NoSchema
    /\ OthersAtRest /\ SecAtRest
    /\ download = NoValue /\ excel = NoValue /\ chat = NoValue
    /\ \E df \in DerivedFrames : derived = [df0 |-> df, df |-> df, returned |-> FALSE]

\* calculate_derived_metrics(df) is called and returns
CalculateDerived ==
    /\ ~derived.returned
    /\ derived' = [derived EXCEPT !.df = CalculateDerivedMetrics(@), !.returned = TRUE]
    /\ UNCHANGED <<agent_side, sec, download, excel, chat>>

NextDerived == CalculateDerived

SpecDerived == InitDerived /\ [][NextDerived]_vars

(***************************************************************************)
(* The metric tiers of sec_downloader_2.py: the declaration of             *)
(* target_metrics under its nine headings (lines 57-129), the Metrics      *)
(* Dictionary loop of save_to_excel (lines 497-521) and the tier display   *)
(* of main (lines 603-620).                                                *)
(***************************************************************************)
\* target_metrics as it is declared: under each "# TIER n" heading, in
\* order, the metrics written below it
TargetMetricsByHeading ==
    << <<"NetIncome", "TotalRevenue", "NetInterestIncome", "ReturnOnEquity",
         "ReturnOnAssets", "EarningsPerShare", "EarningsPerShareDiluted">>,
       <<"TotalAssets", "ShareholdersEquity", "TotalDeposits", "TotalLoans",
         "BookValuePerShare", "TangibleBookValuePerShare", "Tier1CapitalRatio">>,
       <<"ProvisionForLoanLosses", "AllowanceForLoanLosses", "NonPerformingLoans",
         "ChargeOffs", "LoanLossReserveRatio", "NonPerformingAssetRatio">>,
       <<"InterestIncome", "InterestExpense", "NonInterestIncome", "NonInterestExpense",
         "OperatingExpenses", "PersonnelExpense", "OccupancyExpense">>,
       <<"EfficiencyRatio", "NetInterestMargin", "CostOfFunds", "AssetTurnover",
         "OperatingLeverage">>,
       <<"TotalRevenueGrowth", "LoanGrowth", "DepositGrowth", "TangibleEquityRatio",
         "LeverageRatio">>,
       <<"TradingRevenue", "InvestmentBankingRevenue", "TrustAndInvestmentFees",
         "ServiceCharges", "CardRevenue">>,
       <<"CommonEquityTier1Ratio", "TotalCapitalRatio", "RiskWeightedAssets",
         "LeverageCapitalRatio", "LiquidityRatio">>,
       <<"TradingAssets", "AvailableForSaleSecurities", "HeldToMaturitySecurities",
         "Goodwill", "IntangibleAssets">> >>

RECURSIVE Flatten(_)
\* the list the headings' groups make
Flatten(groups) ==
    IF groups = <<>> THEN <<>> ELSE Head(groups) \o Flatten(Tail(groups))

\* self.target_metrics of sec_downloader_2
TargetMetrics2 == Flatten(TargetMetricsByHeading)

\* the keys of tier_descriptions and tier_counters
TierNames ==
    <<"TIER 1", "TIER 2", "TIER 3", "TIER 4", "TIER 5", "TIER 6", "TIER 7",
      "TIER 8", "TIER 9">>

\* the heading under which metric is declared
DeclaredTier(metric) ==
    TierNames[CHOOSE h \in 1..Len(TargetMetricsByHeading) :
                \E k \in 1..Len(TargetMetricsByHeading[h]) :
                    TargetMetricsByHeading[h][k] = metric]

\* lines 499-507: the tier of the metric at index i, counted from 0
TierOfPosition(i) ==
    IF i < 7 THEN "TIER 1"
    ELSE IF i < 15 THEN "TIER 2"
    ELSE IF i < 21 THEN "TIER 3"
    ELSE IF i < 28 THEN "TIER 4"
    ELSE IF i < 33 THEN "TIER 5"
    ELSE IF i < 38 THEN "TIER 6"
    ELSE IF i < 43 THEN "TIER 7"
    ELSE IF i < 48 THEN "TIER 8"
    ELSE "TIER 9"

\* tier_ranges of main
TierRanges ==
    <<[start_idx |-> 1, end_idx |-> 7, tier |-> "TIER 1"],
      [start_idx |-> 8, end_idx |-> 15, tier |-> "TIER 2"],
      [start_idx |-> 16, end_idx |-> 21, tier |-> "TIER 3"],
      [start_idx |-> 22, end_idx |-> 28, tier |-> "TIER 4"],
      [start_idx |-> 29, end_idx |-> 33, tier |-> "TIER 5"],
      [start_idx |-> 34, end_idx |-> 38, tier |-> "TIER 6"],
      [start_idx |-> 39, end_idx |-> 43, tier |-> "TIER 7"],
      [start_idx |-> 44, end_idx |-> 48, tier |-> "TIER 8"],
      [start_idx |-> 49, end_idx |-> 50, tier |-> "TIER 9"]>>

\* seq[a-1:b], a slice of Python
Slice(seq, a, b) ==
    IF a > Len(seq) THEN <<>>
    ELSE SubSeq(seq, a, IF b < Len(seq) THEN b ELSE Len(seq))

\* save_to_excel has reached the Metrics Dictionary: no metric seen yet
InitTiers ==
    /\ Constructed
    /\ tools = <<>> /\ output_schema = NoSchema
    /\ OthersAtRest /\ SecAtRest
    /\ download = NoValue /\ derived = NoValue /\ chat = NoValue
    /\ excel = [pc |-> "metrics_info", i |-> 0, metrics_info |-> <<>>,
                tier_counters |-> [t \in {TierNames[n] : n \in 1..Len(TierNames)} |-> 0],
                range |-> 1, shown |-> <<>>]

\* one pass of the loop of lines 497-516
AssignTier ==
    /\ excel.pc = "metrics_info"
    /\ excel.i < Len(TargetMetrics2)
    /\ LET tier == TierOfPosition(excel.i)
       IN  excel' = [excel EXCEPT
                        !.i = @ + 1,
                        !.tier_counters[tier] = @ + 1,
                        !.metrics_info =
                            Append(@, [Metric_Name |-> TargetMetrics2[excel.i + 1],
                                       Priority_Rank |-> excel.i + 1,
                                       Tier |-> tier,
                                       Column_Position |-> excel.i + 3])]
    /\ UNCHANGED <<agent_side, sec, download, derived, chat>>

\* the loop is over: the sheet is written, save_to_excel returns and main
\* goes on to its tier display
WriteMetricsDictionary ==
    /\ excel.pc = "metrics_info"
    /\ excel.i = Len(TargetMetrics2)
    /\ excel' = [excel EXCEPT !.pc = "tier_ranges", !.i = 0]
    /\ UNCHANGED <<agent_side, sec, download, derived, chat>>

\* main, the loops over tier_ranges and tier_metrics: one line is printed, or
\* the display moves to the next range, or ends
ShowTier ==
    /\ excel.pc = "tier_ranges"
    /\ LET r == TierRanges[excel.range]
           tier_metrics == Slice(TargetMetrics2, r.start_idx, r.end_idx)
       IN  IF excel.i < Len(tier_metrics)
           THEN excel' = [excel EXCEPT
                             !.i = @ + 1,
                             !.shown = Append(@, [rank |-> r.start_idx + excel.i,
                                                  metric |-> tier_metrics[excel.i + 1],
                                                  tier |-> r.tier])]
           ELSE IF excel.range < Len(TierRanges)
           THEN excel' = [excel EXCEPT !.range = @ + 1, !.i = 0]
           ELSE excel' = [excel EXCEPT !.pc = "done"]
    /\ UNCHANGED <<agent_side, sec, download, derived, chat>>

NextTiers == AssignTier \/ WriteMetricsDictionary \/ ShowTier

SpecTiers == InitTiers /\ [][NextTiers]_vars

(***************************************************************************)
(* download_bank_data of sec_downloader_1.py (lines 227-281) and of        *)
(* sec_downloader_2.py (lines 379-446), with get_company_facts (lines      *)
(* 77-99): one pass of the loop per bank, then the table.                  *)
(***************************************************************************)
\* the banks of top_banks the model downloads
NumBanks == 2

\* top_banks, its first names in the order of the dict
TopBanks ==
    SubSeq(<<"JPMorgan Chase & Co.", "Bank of America Corp", "Wells Fargo & Company">>,
           1, NumBanks)

\* the order of str on these names
NameRank(name) ==
    CASE name = "Bank of America Corp" -> 1
      [] name = "JPMorgan Chase & Co." -> 2
      [] name = "Wells Fargo & Company" -> 3
      [] OTHER -> 4

\* what get_company_facts returns None for: line 94, and the handler of
\* line 97 for a fault of requests.get and for one of response.json()
Unavailable == {"non-200 status", "network fault", "decoding fault"}

\* the NetIncomeLoss entries of a bank's facts: two quarters with a value;
\* a value for the first only; a value for the second only; no entry
BankUnits ==
    {<< <<[end |-> 20230331, form |-> "10-Q", val |-> PyInt(1)],
          [end |-> 20230630, form |-> "10-Q", val |-> PyInt(4)]>> >>,
     << <<[end |-> 20230331, form |-> "10-Q", val |-> PyInt(1)],
          [end |-> 20230630, form |-> "8-K", val |-> PyInt(4)]>> >>,
     << <<[end |-> 20230331, form |-> "8-K", val |-> PyInt(1)],
          [end |-> 20230630, form |-> "10-Q", val |-> PyInt(4)]>> >>,
     << <<>> >>}

\* the JSON documents a bank answers with: facts, or a list
BankDocuments ==
    {[json |-> "dict", gaap |-> GaapDocument(net, <<>>, <<>>)] : net \in BankUnits}
        \cup {[json |-> "list"]}

\* the periods at which the any() of version 1, line 219, raises KeyError
FaultyPeriods(version, gaap, range) ==
    {p \in AllPeriods(gaap, range) :
        version = 1 /\ AnyPresent1(PeriodData(version, gaap, p), 1) = "KeyError"}

\* extract_financial_metrics(company_facts, ...) for the facts of bank: a
\* list has no get, and the handler returns the empty metrics_data;
\* entityName is the bank's name
BankMetrics(version, bank, facts, range) ==
    IF facts.json = "list" THEN <<>>
    ELSE LET records == ExtractFinancialMetrics(version, facts.gaap, range)
         IN  [k \in 1..Len(records) |->
                [records[k] EXCEPT !["CompanyName"] = PyStr(bank)]]

\* extract_financial_metrics ran into its handler
ExtractionFaulted(version, facts, range) ==
    \/ facts.json = "list"
    \/ facts.json = "dict" /\ FaultyPeriods(version, facts.gaap, range) # {}

\* pd.to_datetime, on one cell
ToDatetime(cell) == [t |-> "Timestamp", v |-> cell.v]

\* row a is not after row b in the order of ['CompanyName', 'Datetime']
NotAfter(a, b) ==
    \/ NameRank(a["CompanyName"].v) < NameRank(b["CompanyName"].v)
    \/ /\ a["CompanyName"] = b["CompanyName"]
       /\ a["Datetime"].v <= b["Datetime"].v

RECURSIVE SortValues(_)
\* sort_values(['CompanyName', 'Datetime']), stable
SortValues(rows) ==
    IF rows = <<>> THEN <<>>
    ELSE LET first == CHOOSE k \in 1..Len(rows) :
                        /\ \A j \in 1..Len(rows) : NotAfter(rows[k], rows[j])
                        /\ \A j \in 1..(k - 1) : ~NotAfter(rows[j], rows[k])
         IN  <<rows[first]>>
                \o SortValues([j \in 1..(Len(rows) - 1) |->
                                  IF j < first THEN rows[j] ELSE rows[j + 1]])

\* the columns of pd.DataFrame(all_data): the keys of period_data
RecordColumns ==
    <<"Datetime", "CompanyName">> \o [i \in 1..Len(GaapMapping) |-> GaapMapping[i].metric]

\* df.reindex(columns=column_order) after the missing metrics were added as
\* None, on one row
Reindex(row, column_order) ==
    [c \in {column_order[i] : i \in 1..Len(column_order)} |->
        IF c \in DOMAIN row THEN row[c] ELSE None]

\* the table download_bank_data makes of all_data
Table(version, all_data) ==
    IF all_data = <<>> THEN [columns |-> <<>>, rows |-> <<>>]
    ELSE LET dated == [k \in 1..Len(all_data) |->
                         [all_data[k] EXCEPT !["Datetime"] = ToDatetime(@)]]
         IN  IF version = 1
             THEN [columns |-> RecordColumns, rows |-> SortValues(dated)]
             ELSE LET column_order == <<"Datetime", "CompanyName">> \o TargetMetrics2
                      df == CalculateDerivedMetrics(
                                [columns |-> column_order,
                                 rows |-> [k \in 1..Len(dated) |->
                                             Reindex(dated[k], column_order)]])
                  IN  [df EXCEPT !.rows = SortValues(@)]

\* download_bank_data of one of the versions has been called: all_data is
\* empty, no bank has been attempted
InitBanks ==
    /\ Constructed
    /\ tools = <<>> /\ output_schema = NoSchema
    /\ OthersAtRest /\ SecAtRest
    /\ derived = NoValue /\ excel = NoValue /\ chat = NoValue
    /\ \E version \in Versions, range \in DateRanges :
          download = [version |-> version, range |-> range, i |-> 0,
                      all_data |-> <<>>, attempts |-> <<>>, returned |-> FALSE,
                      df |-> [columns |-> <<>>, rows |-> <<>>]]

\* one pass of the loop in which get_company_facts returns None
BankUnavailable(why) ==
    /\ ~download.returned
    /\ download.i < Len(TopBanks)
    /\ download' = [download EXCEPT
                       !.i = @ + 1,
                       !.attempts = Append(@, [bank |-> TopBanks[download.i + 1],
                                               outcome |-> why,
                                               bank_metrics |-> <<>>])]
    /\ UNCHANGED <<agent_side, sec, derived, excel, chat>>

\* one pass of the loop in which the bank answers 200 with a document
BankAnswers(facts) ==
    /\ ~download.returned
    /\ download.i < Len(TopBanks)
    /\ LET bank == TopBanks[download.i + 1]
           bank_metrics == BankMetrics(download.version, bank, facts, download.range)
       IN  download' = [download EXCEPT
                           !.i = @ + 1,
                           !.all_data = @ \o bank_metrics,
                           !.attempts =
                               Append(@, [bank |-> bank,
                                          outcome |->
                                              IF ExtractionFaulted(download.version, facts,
                                                                   download.range)
                                              THEN "extraction fault" ELSE "succeeded",
                                          bank_metrics |-> bank_metrics])]
    /\ UNCHANGED <<agent_side, sec, derived, excel, chat>>

\* the loop is over: the table is made and returned
ReturnTable ==
    /\ ~download.returned
    /\ download.i = Len(TopBanks)
    /\ download' = [download EXCEPT
                       !.returned = TRUE,
                       !.df = Table(download.version, download.all_data)]
    /\ UNCHANGED <<agent_side, sec, derived, excel, chat>>

NextBanks ==
    \/ \E why \in Unavailable : BankUnavailable(why)
    \/ \E facts \in BankDocuments : BankAnswers(facts)
    \/ ReturnTable

SpecBanks == InitBanks /\ [][NextBanks]_vars

(***************************************************************************)
(* The chat callback of the dashboards: update_chat of basic_dash_app_2.py *)
(* (lines 429-479), which asks the agent, and of                           *)
(* older_files/basic_dash_app_1.py (lines 252-279), which asks a mock.     *)
(* The text of the input box is a sequence of characters; the components   *)
(* of the chat are records of their style and their parts.                 *)
(***************************************************************************)
\* the callbacks the model lets the browser make
MaxCallbacks == 2

\* a str of the input box
Text(chars) == [t |-> "str", chars |-> chars]

\* the characters str.strip() removes
Whitespace == {" ", "\t", "\n"}

RECURSIVE LStrip(_)
LStrip(chars) ==
    IF chars # <<>> /\ Head(chars) \in Whitespace THEN LStrip(Tail(chars)) ELSE chars

RECURSIVE RStrip(_)
RStrip(chars) ==
    IF chars # <<>> /\ chars[Len(chars)] \in Whitespace
    THEN RStrip(SubSeq(chars, 1, Len(chars) - 1)) ELSE chars

\* a strip that removes nothing
StripNothing(chars) == chars

\* str.strip()
Strip(chars) == RStrip(LStrip(chars))

\* str.lower(), on the letters of the model
Lower(chars) ==
    [i \in 1..Len(chars) |->
        CASE chars[i] = "P" -> "p"
          [] chars[i] = "D" -> "d"
          [] OTHER -> chars[i]]

\* sub in chars
HasSubstring(chars, sub) ==
    \E i \in 0..(Len(chars) - Len(sub)) : SubSeq(chars, i + 1, i + Len(sub)) = sub

\* what the user may have in the box: nothing, blanks, a request for a plot
\* and one for data
TypedTexts ==
    {Text(<<>>), Text(<<" ">>), Text(<<" ", "\t">>),
     Text(<<" ", "P", "l", "o", "t", " ">>), Text(<<"d", "a", "t", "a">>)}

\* a figure of matplotlib and a DataFrame, as the chatbots return them
Figure(title) == [t |-> "Figure", title |-> title]

DataFrame(columns, records) == [t |-> "DataFrame", columns |-> columns, records |-> records]

\* str(response)
StrOf(answered) ==
    IF answered.t = "str" THEN answered ELSE [t |-> "str", str_of |-> answered]

\* the base64 text of the PNG savefig writes
Base64Png(figure) == [t |-> "str", base64_png_of |-> figure]

\* get_chatbot_response of basic_dash_app_1.py, lines 142-189: the mock
GetChatbotResponse1(user_message) ==
    LET message_lower == Lower(user_message.chars)
    IN  IF \/ HasSubstring(message_lower, <<"c", "h", "a", "r", "t">>)
           \/ HasSubstring(message_lower, <<"p", "l", "o", "t">>)
           \/ HasSubstring(message_lower, <<"g", "r", "a", "p", "h">>)
        THEN Figure("Wells Fargo Revenue Trend")
        ELSE IF \/ HasSubstring(message_lower, <<"d", "a", "t", "a">>)
                \/ HasSubstring(message_lower, <<"t", "a", "b", "l", "e">>)
                \/ HasSubstring(message_lower, <<"d", "a", "t", "a", "f", "r", "a", "m", "e">>)
        THEN DataFrame(<<"Quarter", "Revenue ($M)", "Net Income ($M)", "EPS ($)">>,
                       <<"Q1 2024", "Q2 2024", "Q3 2024", "Q4 2024">>)
        ELSE IF HasSubstring(message_lower, <<"h", "e", "l", "l", "o">>)
        THEN PyStr("Hello! How can I help you with earnings research today?")
        ELSE IF HasSubstring(message_lower, <<"r", "e", "v", "e", "n", "u", "e">>)
        THEN PyStr("Wells Fargo's revenue has shown steady growth over the past quarters, primarily driven by net interest income and fee-based services.")
        ELSE IF HasSubstring(message_lower, <<"e", "a", "r", "n", "i", "n", "g", "s">>)
        THEN PyStr("Recent earnings reports show strong performance with consistent EPS growth and improved efficiency ratios.")
        ELSE IF HasSubstring(message_lower, <<"h", "e", "l", "p">>)
        THEN PyStr("I can help you with: ...")
        ELSE [t |-> "str", mock_response_about |-> user_message.chars]

\* what agent.invoke may return to the dashboard: the failure result; a
\* plain text answer; one tool call with a table, one with a figure; two
\* tool calls
InvokeResults ==
    LET table == DataFrame(<<"NetIncome">>, <<"JPMorgan Chase">>)
        figure == Figure("Latest NetIncome Comparison for Companies")
        call(tool, value) ==
            [tool |-> tool,
             arguments |-> PyDict([company_names |-> PyStr("JPMorgan Chase"),
                                   metric |-> PyStr("NetIncome")]),
             result |-> value]
        answer(calls_made) ==
            [message |-> PyStr(""), tool_calls |-> calls_made, structured_output |-> None]
    IN  {FailureResult([type |-> "ConnectionError", msg |-> ""]),
         [message |-> PyStr("hi"), tool_calls |-> <<>>, structured_output |-> None],
         answer(<<call("compare_metrics_latest", table)>>),
         answer(<<call("plot_metrics_comparison_latest", figure)>>),
         answer(<<call("plot_metrics_comparison_latest", figure),
                  call("compare_metrics_latest", table)>>)}

\* get_chatbot_response of basic_dash_app_2.py, lines 335-338, when invoke
\* returned invoked
GetChatbotResponse2(invoked) ==
    IF Len(invoked.tool_calls) = 0
    THEN Raise("IndexError", "list index out of range")
    ELSE Return(invoked.tool_calls[1].result)

\* format_response_for_display(answered)
FormatResponseForDisplay(answered) ==
    [style |-> "bot_message",
     children |->
        IF answered.t = "str"
        THEN <<"Assistant: ", [span |-> answered]>>
        ELSE IF answered.t = "DataFrame"
        THEN <<"Assistant: ", [table |-> answered]>>
        ELSE IF answered.t = "Figure"
        THEN <<"Assistant: ", [img |-> Base64Png(answered)]>>
        ELSE <<"Assistant: ", [span |-> StrOf(answered)]>>]

\* the div of the user's message
UserMessageDiv(user_input) ==
    [style |-> "user_message", children |-> <<"You: ", user_input>>]

\* the entry of the history for the answer, in app 2 (lines 443-469) with
\* its subtype, in app 1 (line 272) with the str of the answer; its
\* timestamp is taken at time now
StoreBot(app, bot_response, now) ==
    IF app = 1
    THEN [type |-> "bot", content |-> StrOf(bot_response), timestamp |-> now]
    ELSE IF bot_response.t = "DataFrame"
    THEN [type |-> "bot", subtype |-> "dataframe", columns |-> bot_response.columns,
          data |-> bot_response.records, timestamp |-> now]
    ELSE IF bot_response.t = "Figure"
    THEN [type |-> "bot", subtype |-> "image", data |-> Base64Png(bot_response),
          timestamp |-> now]
    ELSE [type |-> "bot", subtype |-> "text", data |-> StrOf(bot_response),
          timestamp |-> now]

\* the greeting of app.layout
Greeting ==
    [style |-> "bot_message",
     children |-> <<"Assistant: ",
                    [text |-> "Hello! I'm your Earnings Research assistant. Ask me anything about financial data, earnings analysis, or request charts and reports."]>>]

\* not x, for the value of the input box
Falsy(user_input) == user_input = None \/ user_input.chars = <<>>

\* line 431: the callback returns at once
ReturnsEarly(triggered, user_input) ==
    \/ ~triggered
    \/ Falsy(user_input)
    \/ Strip(user_input.chars) = <<>>

\* a history that puts the new entries first
NewHistoryPrepended(chat_history, entries) == entries \o chat_history

\* new_history = chat_history + [...]
NewHistory(chat_history, entries) == chat_history \o entries

\* update_chat(n_clicks, n_submit, user_input, chat_children, chat_history)
\* with the answer of the chatbot, an outcome; clock is the time of the
\* call.  The outputs, and whether the chatbot was called.
UpdateChatOutcome(app, triggered, user_input, chat_children, chat_history, answer, clock) ==
    IF ReturnsEarly(triggered, user_input)
    THEN [returned |-> TRUE, chatbot_calls |-> 0,
          outputs |-> [children |-> chat_children, value |-> Text(<<>>),
                       history |-> chat_history]]
    ELSE IF ~answer.ok
    THEN [returned |-> FALSE, chatbot_calls |-> 1, exc |-> answer.exc]
    ELSE LET bot_response == answer.val
             user_entry(now) == [type |-> "user", content |-> user_input, timestamp |-> now]
         IN  [returned |-> TRUE, chatbot_calls |-> 1,
              outputs |->
                 [children |-> chat_children
                                 \o <<UserMessageDiv(user_input),
                                      FormatResponseForDisplay(bot_response)>>,
                  value |-> Text(<<>>),
                  history |-> NewHistory(chat_history,
                                         IF app = 1
                                         THEN <<user_entry(clock + 1),
                                                StoreBot(app, bot_response, clock + 2)>>
                                         ELSE <<user_entry(clock + 2),
                                                StoreBot(app, bot_response, clock + 1)>>)]]

\* the page of one of the two dashboards as app.layout makes it: the
\* greeting in the chat, an input box without a value, an empty history
InitChat ==
    /\ Constructed
    /\ tools = <<>> /\ output_schema = NoSchema
    /\ OthersAtRest /\ SecAtRest
    /\ download = NoValue /\ derived = NoValue /\ excel = NoValue
    /\ \E app \in {1, 2} :
          chat = [app |-> app, children |-> <<Greeting>>, value |-> None,
                  history |-> <<>>, n |-> 0, clock |-> 0, chatbot_calls |-> 0,
                  last |-> NoValue]

\* the user edits the input box
Type(text) ==
    /\ chat.value # text
    /\ chat' = [chat EXCEPT !.value = text]
    /\ UNCHANGED <<agent_side, sec, download, derived, excel>>

\* the browser calls update_chat with the page's state and applies the
\* outputs to the page; a callback that raises leaves the page as it is
Callback(triggered, answer) ==
    /\ chat.n < MaxCallbacks
    /\ LET outcome == UpdateChatOutcome(chat.app, triggered, chat.value, chat.children,
                                        chat.history, answer, chat.clock)
           received == [triggered |-> triggered, user_input |-> chat.value,
                        children |-> chat.children, history |-> chat.history]
       IN  chat' = [chat EXCEPT
                       !.n = @ + 1,
                       !.clock = @ + 2 * outcome.chatbot_calls,
                       !.chatbot_calls = @ + outcome.chatbot_calls,
                       !.children = IF outcome.returned THEN outcome.outputs.children ELSE @,
                       !.value = IF outcome.returned THEN outcome.outputs.value ELSE @,
                       !.history = IF outcome.returned THEN outcome.outputs.history ELSE @,
                       !.last = [received |-> received, outcome |-> outcome]]
    /\ UNCHANGED <<agent_side, sec, download, derived, excel>>

\* update_chat of basic_dash_app_1.py
UpdateChat1(triggered) ==
    /\ chat.app = 1
    /\ Callback(triggered,
                IF chat.value = None THEN Return(None)
                ELSE Return(GetChatbotResponse1(chat.value)))

\* update_chat of basic_dash_app_2.py, agent.invoke returning invoked
UpdateChat2(triggered, invoked) ==
    /\ chat.app = 2
    /\ Callback(triggered, GetChatbotResponse2(invoked))

NextChat ==
    \/ \E text \in TypedTexts : Type(text)
    \/ \E triggered \in BOOLEAN : UpdateChat1(triggered)
    \/ \E triggered \in BOOLEAN, invoked \in InvokeResults : UpdateChat2(triggered, invoked)

SpecChat == InitChat /\ [][NextChat]_vars

(***************************************************************************)
(* Vocabulary of the properties.                                           *)
(***************************************************************************)
Done == pc = "done"

\* invoke returned a dict (it did not raise)
Returned == Done /\ escaped = NoFault /\ ret # NoValue

HasError(r) == "error" \in DOMAIN r

\* the endpoint never delivered a decodable 2xx body
TransportFailed == Done /\ response = NoValue

\* a tool-call instruction of the wire contract: {function: {name, arguments}}
WellFormedEntry(e) ==
    /\ e.t = "dict" /\ "function" \in DOMAIN e.v
    /\ e.v["function"].t = "dict"
    /\ {"name", "arguments"} \subseteq DOMAIN e.v["function"].v

\* a response of the wire contract: message.content a string, and
\* message.tool_calls, if present, a list of instructions
WellFormed(body) ==
    /\ body.t = "dict" /\ "message" \in DOMAIN body.v
    /\ body.v["message"].t = "dict"
    /\ "content" \in DOMAIN body.v["message"].v
    /\ body.v["message"].v["content"].t = "str"
    /\ "tool_calls" \in DOMAIN body.v["message"].v =>
          /\ body.v["message"].v["tool_calls"].t = "list"
          /\ \A i \in 1..Len(body.v["message"].v["tool_calls"].v) :
                WellFormedEntry(body.v["message"].v["tool_calls"].v[i])

\* invoke has finished on a successful response
DoneOnSuccess == Done /\ response # NoValue /\ WellFormed(response)

\* the instructions a well-formed response carries, in the order received
Instructions(body) ==
    IF "tool_calls" \in DOMAIN body.v["message"].v
    THEN body.v["message"].v["tool_calls"].v
    ELSE <<>>

InstrName(e) == e.v["function"].v["name"]
InstrArgs(e) == e.v["function"].v["arguments"]
Content(body) == body.v["message"].v["content"]

\* the registry positions whose callable is named as the instruction asks
Registered(e) ==
    {j \in 1..Len(tools) : InstrName(e).t = "str" /\ FnName(tools[j]) = InstrName(e).v}

\* all k instructions have an entry, in the order received
AllRecorded ==
    /\ Len(ret.tool_calls) = Len(Instructions(response))
    /\ \A i \in 1..Len(ret.tool_calls) :
          /\ ret.tool_calls[i].tool = InstrName(Instructions(response)[i])
          /\ ret.tool_calls[i].arguments = InstrArgs(Instructions(response)[i])

\* the callables invoke runs on the given instructions, in order
RECURSIVE RunsOf(_)
RunsOf(instrs) ==
    IF instrs = <<>> THEN <<>>
    ELSE LET e == Head(instrs)
             hits == Registered(e)
         IN  (IF hits = {} THEN <<>>
              ELSE LET first == CHOOSE j \in hits : \A h \in hits : j <= h
                   IN  <<[pos |-> first, fn |-> tools[first], arguments |-> InstrArgs(e)]>>)
             \o RunsOf(Tail(instrs))

\* what the first callable registered under the instruction's name does
FirstOutcome(e) ==
    LET hits == Registered(e)
        first == CHOOSE j \in hits : \A h \in hits : j <= h
    IN  CallTool(tools[first], InstrArgs(e))

\* the structured-output block of this response raises nothing past line 177
StructuredOk == StructuredOutput(output_schema, Content(response)).ok

(***************************************************************************)
(* C1.  An instruction naming no registered tool (exact, case-sensitive    *)
(* comparison) is recorded with the result "Tool <name> not found"; invoke *)
(* returns a result without an error, and every instruction of the         *)
(* response, the later ones included, is recorded and its tool run.        *)
(***************************************************************************)
C1_Body ==
    \A i \in 1..Len(Instructions(response)) :
        Registered(Instructions(response)[i]) = {} =>
            /\ Returned /\ ~HasError(ret)
            /\ AllRecorded
            /\ ret.tool_calls[i].result =
                  PyStr("Tool " \o PyFormat(InstrName(Instructions(response)[i])) \o " not found")
            /\ executed = RunsOf(Instructions(response))

\* C1: the statement above, on every successful response.
C1_NotFoundIsData == DoneOnSuccess => C1_Body

\* C1 holds of every response whose structured-output block does not fault.
C1_UnlessStructuredFault == DoneOnSuccess /\ StructuredOk => C1_Body

(***************************************************************************)
(* C2.  When the registered tool an instruction names raises, the result   *)
(* recorded for it is "Error executing <name>: <fault message>"; invoke    *)
(* returns without a top-level error and every instruction is recorded.    *)
(***************************************************************************)
C2_Body ==
    \A i \in 1..Len(Instructions(response)) :
        LET e == Instructions(response)[i] IN
        (Registered(e) # {} /\ ~FirstOutcome(e).ok) =>
            /\ Returned /\ ~HasError(ret)
            /\ AllRecorded
            /\ ret.tool_calls[i].result =
                  PyStr("Error executing " \o InstrName(e).v \o ": "
                        \o FirstOutcome(e).exc.msg)
            /\ executed = RunsOf(Instructions(response))

\* C2: the statement above, on every successful response.
C2_ToolFaultIsData == DoneOnSuccess => C2_Body

\* C2 holds of every response whose structured-output block does not fault.
C2_UnlessStructuredFault == DoneOnSuccess /\ StructuredOk => C2_Body

(***************************************************************************)
(* C3.  After a transport failure invoke has returned (not raised) a       *)
(* result whose error is a non-empty string, whose tool_calls is empty     *)
(* and whose message and structured_output are null.                       *)
(***************************************************************************)
C3_TransportFailureResult ==
    TransportFailed =>
        /\ Returned
        /\ HasError(ret) /\ ret.error # ""
        /\ ret.tool_calls = <<>>
        /\ ret.message = None
        /\ ret.structured_output = None

\* a transport fault with an empty message has been reported
C3_Witness ==
    /\ TransportFailed /\ Returned
    /\ ret.error = "Failed to invoke model: "

C5_Body ==
    /\ Returned
    /\ AllRecorded
    /\ executed = RunsOf(Instructions(response))

\* C5: the statement above, on every successful response.
C5_AllCallsInOrder == DoneOnSuccess => C5_Body

\* C5 holds of every response whose structured-output block does not fault.
C5_UnlessStructuredFault == DoneOnSuccess /\ StructuredOk => C5_Body

(***************************************************************************)
(* C6.  For an instruction naming a registered tool that returns normally, *)
(* the matching tool_calls entry holds the name, the arguments as          *)
(* received and the value the callable returned: calculate_sum on          *)
(* {a: 2, b: 3} gives 5.                                                   *)
(***************************************************************************)
C6_Body ==
    \A i \in 1..Len(Instructions(response)) :
        LET e == Instructions(response)[i] IN
        (Registered(e) # {} /\ FirstOutcome(e).ok) =>
            /\ Returned
            /\ Len(ret.tool_calls) >= i
            /\ ret.tool_calls[i] =
                  [tool |-> InstrName(e), arguments |-> InstrArgs(e),
                   result |-> FirstOutcome(e).val]
            /\ (Len(tools) > 0 /\ tools[1] = "calculate_sum"
                    /\ e = ToolCall(PyStr("calculate_sum"), Args23))
                  => ret.tool_calls[i].result = PyInt(5)

\* C6: the statement above, on every successful response.
C6_ResultRecorded == DoneOnSuccess => C6_Body

\* C6 holds of every response whose structured-output block does not fault.
C6_UnlessStructuredFault == DoneOnSuccess /\ StructuredOk => C6_Body

(***************************************************************************)
(* C7.  With two callables registered under one name, an instruction for   *)
(* that name runs the one registered first: every callable invoke runs is  *)
(* the earliest of its name in the registry, and the result recorded is    *)
(* that callable's.                                                        *)
(***************************************************************************)
C7_FirstRegisteredWins ==
    /\ \A n \in 1..Len(executed) :
          \A j \in 1..Len(tools) :
              FnName(tools[j]) = FnName(executed[n].fn) => executed[n].pos <= j
    /\ (DoneOnSuccess /\ Returned /\ ~HasError(ret)) =>
          \A i \in 1..Len(Instructions(response)) :
              LET e == Instructions(response)[i] IN
              Registered(e) # {} =>
                  ret.tool_calls[i].result =
                      IF FirstOutcome(e).ok THEN FirstOutcome(e).val
                      ELSE PyStr(ErrorText(InstrName(e), FirstOutcome(e).exc))

\* C7 as claimed: every callable invoke runs is the latest of its name.
C7_LastRegisteredWins ==
    \A n \in 1..Len(executed) :
        \A j \in 1..Len(tools) :
            FnName(tools[j]) = FnName(executed[n].fn) => j <= executed[n].pos

\* difference and calculate_sum share a name, difference is registered
\* first, and the instruction calculate_sum(a=2, b=3) was answered 2 - 3
C7_Witness ==
    /\ Returned /\ ~HasError(ret)
    /\ tools = <<"difference", "calculate_sum">>
    /\ Len(ret.tool_calls) > 0
    /\ ret.tool_calls[1].tool = PyStr("calculate_sum")
    /\ ret.tool_calls[1].arguments = Args23
    /\ ret.tool_calls[1].result = PyInt(0 - 1)

(***************************************************************************)
(* C8.  Without an output contract, structured_output is null in every     *)
(* result of invoke, on the success and on the failure path.               *)
(***************************************************************************)
C8_NoContractNoStructuredOutput ==
    (Done /\ output_schema = NoSchema) =>
        Returned /\ ret.structured_output = None

\* no contract, and a message that a contract would have accepted
C8_Witness ==
    /\ Returned /\ output_schema = NoSchema
    /\ ~HasError(ret)
    /\ ret.message = PyStr(ValidText)

(***************************************************************************)
(* C9.  With a contract configured and a successful response whose message *)
(* text is not valid JSON: invoke does not raise; structured_output is the *)
(* error string "Failed to parse structured output: ..." when the text is  *)
(* not empty, and null when it is empty.                                   *)
(***************************************************************************)
InvalidJsonMessage ==
    /\ DoneOnSuccess
    /\ output_schema # NoSchema
    /\ ~JsonLoads(Content(response)).ok

\* C9, amended: a text that is not valid JSON is reported in structured_output
\* when it is not empty, and leaves structured_output null when it is empty;
\* invoke returns either way.
C9_NonEmptyInvalidJsonIsReported ==
    InvalidJsonMessage =>
        /\ Returned
        /\ ret.structured_output =
              IF Content(response).v = "" THEN None
              ELSE PyStr("Failed to parse structured output: "
                         \o JsonLoads(Content(response)).exc.msg)

\* C9 as claimed: for every text that is not valid JSON, structured_output
\* is a non-null error string.
C9_InvalidJsonIsReported ==
    InvalidJsonMessage =>
        /\ Returned
        /\ ret.structured_output.t = "str"

\* the text "hello" was reported, after a tool call was recorded
C9_Witness ==
    /\ InvalidJsonMessage /\ Returned
    /\ Content(response) = PyStr("hello")
    /\ Len(ret.tool_calls) > 0
    /\ ret.structured_output.t = "str"

(***************************************************************************)
(* C10.  With a contract configured, a message text that fails to parse or *)
(* to validate (invalid JSON, JSON that is no object, an object the        *)
(* contract rejects) is reported in structured_output only: the result     *)
(* has no top-level error and keeps the message and every tool-call        *)
(* result collected.                                                       *)
(***************************************************************************)
ParseOrValidationFails ==
    /\ DoneOnSuccess
    /\ output_schema # NoSchema
    /\ Truthy(Content(response))
    /\ LET parsed == JsonLoads(Content(response))
       IN  ~parsed.ok \/ ~Construct(output_schema, parsed.val).ok

\* C10: a text that fails to parse or to validate leaves a result with no
\* top-level error, the message, every tool-call entry, and an error string
\* in structured_output.
C10_ParseFailureConfined ==
    ParseOrValidationFails =>
        /\ Returned /\ ~HasError(ret)
        /\ ret.message = Content(response)
        /\ AllRecorded
        /\ ret.structured_output.t = "str"

\* C10 holds of the texts that are no JSON and of the objects the contract
\* rejects; it fails only on JSON that is no object.
C10_UnlessNotAnObject ==
    (ParseOrValidationFails
        /\ (JsonLoads(Content(response)).ok => JsonLoads(Content(response)).val.t = "dict"))
    => /\ Returned /\ ~HasError(ret)
       /\ ret.message = Content(response)
       /\ AllRecorded
       /\ ret.structured_output.t = "str"

(***************************************************************************)
(* C11.  Schema inference gives one schema per callable, in the order the  *)
(* callables were supplied; in each, required lists exactly the parameters *)
(* without a default, in declaration order, and properties has every       *)
(* parameter.                                                              *)
(***************************************************************************)
\* q lists, without repetition, elements that appear in the same order in p
IsOrderedSubSeq(q, p) ==
    \A i, j \in 1..Len(q) :
        i < j => \E k, l \in 1..Len(p) : k < l /\ p[k] = q[i] /\ p[l] = q[j]

\* C11: the statement above, of the schemas cached at construction.
C11_OneSchemaPerCallable ==
    /\ Len(tool_schemas) = Len(tools)
    /\ \A i \in 1..Len(tools) :
          LET params == tool_schemas[i].function.parameters IN
          /\ tool_schemas[i].function.name = FnName(tools[i])
          /\ DOMAIN params.properties = ParamSet(tools[i])
          /\ {params.required[k] : k \in 1..Len(params.required)}
                = ParamSet(tools[i]) \ Defaulted(tools[i])
          /\ IsOrderedSubSeq(params.required, Params(tools[i]))

\* the schemas of scale_values (one parameter of four required) and
\* top_items (two of three, in declaration order) are cached
C11_Witness ==
    /\ pc = "done"
    /\ Len(tool_schemas) = 2
    /\ tool_schemas[1].function.parameters.required = <<"values">>
    /\ tool_schemas[2].function.parameters.required = <<"items", "count">>

(***************************************************************************)
(* C12.  The inferred type of every parameter: int gives "integer", float  *)
(* "number", bool "boolean", every sequence annotation "array", and any    *)
(* other annotation or none "string".                                      *)
(***************************************************************************)
SequenceAnnotations == {"list", "List[int]", "tuple"}

TypeOf(i, p) == tool_schemas[i].function.parameters.properties[p].type

\* C12: the statement above, of the schemas cached at construction.
C12_TypeMapping ==
    \A i \in 1..Len(tools) : \A p \in ParamSet(tools[i]) :
        LET a == Annotation(tools[i], p) IN
        TypeOf(i, p) =
            CASE a = "int" -> "integer"
              [] a = "float" -> "number"
              [] a = "bool" -> "boolean"
              [] a \in SequenceAnnotations -> "array"
              [] OTHER -> "string"

\* C12 holds when "sequence" is read as the bare list class only.
C12_UnlessOtherSequence ==
    \A i \in 1..Len(tools) : \A p \in ParamSet(tools[i]) :
        LET a == Annotation(tools[i], p) IN
        a \notin (SequenceAnnotations \ {"list"}) =>
            TypeOf(i, p) =
                CASE a = "int" -> "integer"
                  [] a = "float" -> "number"
                  [] a = "bool" -> "boolean"
                  [] a = "list" -> "array"
                  [] OTHER -> "string"

(***************************************************************************)
(* C13.  The request invoke sends holds the configured model, one message  *)
(* of role "user" whose content is the prompt unchanged, and stream false; *)
(* it holds tools exactly when a tool is registered (then all the inferred *)
(* schemas, in registration order) and format exactly when a contract is   *)
(* configured.                                                             *)
(***************************************************************************)
C13_RequestContents ==
    pc # "idle" =>
        /\ request.url = endpoint
        /\ request.json["model"] = model_name
        /\ request.json["messages"] = <<[role |-> "user", content |-> prompt]>>
        /\ request.json["stream"] = FALSE
        /\ "tools" \in DOMAIN request.json <=> Len(tools) > 0
        /\ "tools" \in DOMAIN request.json =>
              /\ request.json["tools"] = tool_schemas
              /\ Len(request.json["tools"]) = Len(tools)
              /\ \A i \in 1..Len(tools) :
                    request.json["tools"][i].function.name = FnName(tools[i])
        /\ "format" \in DOMAIN request.json <=> output_schema # NoSchema
        /\ DOMAIN request.json \subseteq {"model", "messages", "stream", "tools", "format"}

\* a request with tools and format went out, and one with neither
C13_Witness ==
    /\ pc = "done" /\ prompt # ""
    /\ DOMAIN request.json = {"model", "messages", "stream", "tools", "format"}

C13_WitnessBare ==
    /\ pc = "done"
    /\ DOMAIN request.json = {"model", "messages", "stream"}

(***************************************************************************)
(* C14.  Each invoke posts exactly one request: none is posted again after *)
(* a transport failure, and none follows the tool results.                 *)
(***************************************************************************)
C14_OneRequestPerInvoke == pc # "idle" => sent = 1

\* an invoke that failed in transport, and one that ran a tool, are over
C14_Witness == TransportFailed /\ sent = 1

C14_WitnessTools == DoneOnSuccess /\ Len(executed) > 0 /\ sent = 1

(***************************************************************************)
(* C15.  invoke is stateless: no step of any invoke changes the model      *)
(* name, endpoint, proxies, contract, registry or cached schemas, and what *)
(* an invoke returns is what it returns alone on its response, whatever    *)
(* invokes came before.                                                    *)
(***************************************************************************)
\* the outcome of the invoke that ended is that of invoke alone
SameAsAlone ==
    Done =>
        IF response = NoValue
        THEN \E exc \in TransportFaults :
                /\ ret = InvokeAloneFailing(exc).ret
                /\ escaped = InvokeAloneFailing(exc).escaped
        ELSE /\ ret = InvokeAlone(tools, output_schema, response).ret
             /\ escaped = InvokeAlone(tools, output_schema, response).escaped

\* C15: the statement above.
C15_InvokeIsStateless == [][agent' = agent]_vars /\ []SameAsAlone

\* a second invoke ended and built a structured output, as the contract asks
C15_Witness ==
    /\ invocations = 2
    /\ Done /\ Returned /\ ~HasError(ret)
    /\ output_schema # NoSchema
    /\ ret.structured_output.t = "BaseModel"
    /\ tool_schemas = GenerateToolSchemas(tools)

(***************************************************************************)
(* C18.  A result with a top-level error reports no tool call, and no      *)
(* registered tool ran in that invocation: invoke never runs tools and     *)
(* then returns a result that hides that they ran.                         *)
(***************************************************************************)
\* C18: the statement above.
C18_ErrorMeansNoToolRan ==
    Returned /\ HasError(ret) => ret.tool_calls = <<>> /\ executed = <<>>

\* C18 holds of the part a result shows: with an error, tool_calls is empty.
C18_ErrorMeansNoToolReported ==
    Returned /\ HasError(ret) => ret.tool_calls = <<>>

\* a tool ran, a later instruction lacked a key, and the result is an error
C18_ToolRanThenError ==
    /\ Returned /\ HasError(ret)
    /\ output_schema = NoSchema
    /\ Len(executed) > 0

(***************************************************************************)
(* C19.  Every result of invoke has one of two shapes: an error key with   *)
(* message null, tool_calls empty and structured_output null; or no error  *)
(* key and the message equal to the content of the response's message.     *)
(***************************************************************************)
FailureShape(r) ==
    /\ DOMAIN r = {"error", "message", "tool_calls", "structured_output"}
    /\ r.message = None
    /\ r.tool_calls = <<>>
    /\ r.structured_output = None

SuccessShape(r, body) ==
    /\ DOMAIN r = {"message", "tool_calls", "structured_output"}
    /\ body # NoValue
    /\ r.message = Content(body)

\* C19: the statement above.
C19_TwoShapes ==
    Returned => IF HasError(ret) THEN FailureShape(ret) ELSE SuccessShape(ret, response)

\* a failure found after the response came in, and a success with tool calls
C19_Witness == Returned /\ HasError(ret) /\ response # NoValue /\ FailureShape(ret)

C19_WitnessSuccess ==
    Returned /\ ~HasError(ret) /\ Len(ret.tool_calls) > 0 /\ SuccessShape(ret, response)

(***************************************************************************)
(* C17.  The registry is fixed at construction: the names dispatch can     *)
(* resolve are the names the cached schemas advertise, in the same order,  *)
(* even when the caller adds to, removes from or reorders the list it      *)
(* passed to the constructor.                                              *)
(***************************************************************************)
\* the names dispatch resolves, in the order it tries them
DispatchNames == [i \in 1..Len(tools) |-> FnName(tools[i])]

\* the names the cached schemas advertise
AdvertisedNames == [i \in 1..Len(tool_schemas) |-> tool_schemas[i].function.name]

\* C17: the statement above.
C17_RegistryFixed == DispatchNames = AdvertisedNames

\* C17 holds as long as the caller leaves its list alone.
C17_FixedWhileListUntouched == caller_edits = 0 => DispatchNames = AdvertisedNames

\* the caller removed a callable, and the next invoke still advertised it
C17_AdvertisedButUnresolvable ==
    /\ caller_edits > 0 /\ Done /\ Returned /\ ~HasError(ret)
    /\ Len(ret.tool_calls) > 0
    /\ \E k \in 1..Len(ret.tool_calls) :
          /\ ret.tool_calls[k].tool.t = "str"
          /\ \E i \in 1..Len(AdvertisedNames) : AdvertisedNames[i] = ret.tool_calls[k].tool.v
          /\ Lookup(tools, ret.tool_calls[k].tool) = 0

(***************************************************************************)
(* C16.  Of N concurrent invokes on one agent, under every interleaving,   *)
(* each returns what it returns alone on its own response: no call's       *)
(* message, tool_calls or structured_output holds data of another call's   *)
(* response.                                                               *)
(***************************************************************************)
\* caller c's invoke ended as it ends alone on what c received
EndsAsAlone(c) ==
    LET f == frames[c]
        alone == InvokeAlone(tools, output_schema, f.response)
    IN  IF f.response = NoValue
        THEN \E exc \in TransportFaults :
                /\ f.ret = InvokeAloneFailing(exc).ret
                /\ f.escaped = InvokeAloneFailing(exc).escaped
        ELSE /\ f.ret = alone.ret
             /\ f.escaped = alone.escaped

FirstTagEntries == us_gaap["NetIncomeLoss"][1]

\* the values the entries of form `form` carry for period_end
ValuesOf(entries, form, period_end) ==
    {entries[i].val : i \in {j \in 1..Len(entries) :
                                /\ Qualifies(entries[j], period_end)
                                /\ entries[j].form = form
                                /\ entries[j].val # None}}

\* both a 10-Q and a 10-K entry carry a value for period_end
BothForms(entries, period_end) ==
    /\ ValuesOf(entries, "10-Q", period_end) # {}
    /\ ValuesOf(entries, "10-K", period_end) # {}

\* C20: the statement above, of both versions.
C20_QuarterlyPreferred ==
    \A version \in Versions :
        metrics_data[version].returned =>
            \A r \in 1..Len(Records(version)) :
                LET record == Records(version)[r] IN
                BothForms(FirstTagEntries, record.Datetime.v) =>
                    record.NetIncome \in ValuesOf(FirstTagEntries, "10-Q", record.Datetime.v)

\* What both versions do: the first 10-Q or 10-K entry of the period wins.
C20_FirstFiledWins ==
    \A version \in Versions :
        metrics_data[version].returned =>
            \A r \in 1..Len(Records(version)) :
                LET record == Records(version)[r]
                    first == BreakAt(FirstTagEntries, record.Datetime.v)
                IN  BothForms(FirstTagEntries, record.Datetime.v) =>
                        record.NetIncome = FirstTagEntries[first].val

\* the 10-K entry comes first, and both versions return its value
C20_AnnualSelected ==
    /\ \A version \in Versions : metrics_data[version].returned
    /\ FirstTagEntries = <<[end |-> 20230331, form |-> "10-K", val |-> PyInt(2)],
                           [end |-> 20230331, form |-> "10-Q", val |-> PyInt(1)]>>
    /\ \A version \in Versions : Records(version)[1].NetIncome = PyInt(2)

(***************************************************************************)
(* C21.  The two versions break ties differently in their value selection: *)
(* on some company facts, for the same list of candidate tags and the same *)
(* period end, sec_downloader_1 and sec_downloader_2 select different      *)
(* values for a metric.                                                    *)
(***************************************************************************)
\* the value version selects for metric m of the mapping, for period_end
Selected(version, gaap, m, period_end) ==
    SelectValue(version, gaap, GaapMapping[m].tags, period_end)

\* the period ends a document holds, in range or not
PeriodEnds(gaap) ==
    {e.end : e \in {en \in UNION {UNION {{gaap[tag][u][i] : i \in 1..Len(gaap[tag][u])} :
                                         u \in 1..Len(gaap[tag])} : tag \in DOMAIN gaap} :
                        "end" \in DOMAIN en}}

\* the two versions select different values somewhere in gaap
VersionsDiffer(gaap) ==
    \E m \in 1..Len(GaapMapping), period_end \in PeriodEnds(gaap) :
        Selected(1, gaap, m, period_end) # Selected(2, gaap, m, period_end)

PeriodsWithValue(version, gaap, range) ==
    {p \in AllPeriods(gaap, range) :
        \E m \in 1..Len(GaapMapping) : Selected(version, gaap, m, p) # None}

\* the period ends of the records version returned, in the order returned
ReturnedPeriods(version) ==
    [r \in 1..Len(Records(version)) |-> Records(version)[r].Datetime.v]

\* C22: the statement above.
C22_OneRecordPerPeriodWithValue ==
    metrics_data[1].returned =>
        ReturnedPeriods(1) = Sorted(PeriodsWithValue(1, us_gaap, date_range))

\* Short of C22: what version 1 returns is a prefix of those records, and
\* holds all of them when no in-range period end is without a value.
C22_PrefixOfRecords ==
    metrics_data[1].returned =>
        LET all == Sorted(PeriodsWithValue(1, us_gaap, date_range))
            got == ReturnedPeriods(1)
        IN  /\ Len(got) <= Len(all)
            /\ \A r \in 1..Len(got) : got[r] = all[r]
            /\ AllPeriods(us_gaap, date_range) = PeriodsWithValue(1, us_gaap, date_range)
                  => got = all

\* a first quarter with no value came before a second quarter with one,
\* and version 1 returned no record at all
C22_LaterPeriodLost ==
    /\ metrics_data[1].returned
    /\ Records(1) = <<>>
    /\ 20230630 \in PeriodsWithValue(1, us_gaap, date_range)
    /\ 20230331 \in AllPeriods(us_gaap, date_range)

(***************************************************************************)
(* C24.  Every record extract_financial_metrics returns has its period end *)
(* within [start_date, end_date]; the records are in strictly ascending    *)
(* order of period end, so no two of one call share a period end.          *)
(***************************************************************************)
\* C24: the statement above, of both versions.
C24_InRangeAscending ==
    \A version \in Versions :
        LET got == ReturnedPeriods(version) IN
        /\ \A r \in 1..Len(got) : date_range.start <= got[r] /\ got[r] <= date_range.end
        /\ \A r, q \in 1..Len(got) : r < q => got[r] < got[q]

\* both versions returned two records, from facts that also hold a period
\* end out of range and entries of one period end twice
C24_Witness ==
    /\ \A version \in Versions :
          metrics_data[version].returned /\ Len(Records(version)) = 2
    /\ \E p \in PeriodEnds(us_gaap) : p > date_range.end

(***************************************************************************)
(* C25.  calculate_derived_metrics only fills cells that are missing: a    *)
(* ReturnOnEquity, ReturnOnAssets or EfficiencyRatio there already is not  *)
(* changed, a missing one is filled only when its inputs are present and   *)
(* its denominator is not zero, and no other column and no row count is    *)
(* changed.                                                                *)
(***************************************************************************)
\* the inputs of a derived column, the first the numerator
InputsOf(column) ==
    CASE column = "ReturnOnEquity" -> <<"NetIncome", "ShareholdersEquity">>
      [] column = "ReturnOnAssets" -> <<"NetIncome", "TotalAssets">>
      [] column = "EfficiencyRatio" ->
            <<"NonInterestExpense", "NetInterestIncome", "NonInterestIncome">>

\* the denominator of a derived column in a row, a missing input being 0
DenominatorOf(column, row) ==
    IF column = "EfficiencyRatio" THEN RevenueBase(row).v
    ELSE FillNa0(row[InputsOf(column)[2]]).v

\* every input of column is present in row
AllInputsPresent(column, row) ==
    \A i \in 1..Len(InputsOf(column)) : NotNa(row[InputsOf(column)[i]])

\* the numerator is present, and for the efficiency ratio one of the two
\* incomes, for the two returns the denominator
InputsPresentAsTested(column, row) ==
    IF column = "EfficiencyRatio"
    THEN /\ NotNa(row["NonInterestExpense"])
         /\ (NotNa(row["NetInterestIncome"]) \/ NotNa(row["NonInterestIncome"]))
    ELSE AllInputsPresent(column, row)

\* the frame of the function: rows, columns, and every cell but the derived
\* cells that were missing, and of those the ones whose inputs are not there
OnlyFills(before, after, all_inputs) ==
    /\ after.columns = before.columns
    /\ Len(after.rows) = Len(before.rows)
    /\ \A r \in 1..Len(before.rows) :
          /\ DOMAIN after.rows[r] = DOMAIN before.rows[r]
          /\ \A c \in DOMAIN before.rows[r] :
                after.rows[r][c] # before.rows[r][c] =>
                    /\ c \in {"ReturnOnEquity", "ReturnOnAssets", "EfficiencyRatio"}
                    /\ IsNa(before.rows[r][c])
                    /\ IF all_inputs THEN AllInputsPresent(c, before.rows[r])
                       ELSE InputsPresentAsTested(c, before.rows[r])
                    /\ DenominatorOf(c, before.rows[r]) # 0

\* C25: the statement above, "its inputs" being all the inputs of the column.
C25_OnlyFillsWithAllInputs ==
    derived.returned => OnlyFills(derived.df0, derived.df, TRUE)

\* C25, as the code has it: for the efficiency ratio the expense and one of
\* the two incomes are enough, the missing income counting as 0.
C25_OnlyFillsMissing ==
    derived.returned => OnlyFills(derived.df0, derived.df, FALSE)

\* a table came back with an efficiency ratio filled from one income only,
\* and a return on equity that was there left as it was
C25_Witness ==
    /\ derived.returned
    /\ \E r \in 1..Len(derived.df.rows) :
          /\ "EfficiencyRatio" \in DOMAIN derived.df.rows[r]
          /\ derived.df0.rows[r]["EfficiencyRatio"] = None
          /\ derived.df0.rows[r]["NonInterestIncome"] = None
          /\ derived.df.rows[r]["EfficiencyRatio"] = PyRatio(PyInt(4), PyInt(2))
          /\ derived.df.rows[r]["ReturnOnEquity"] = PyInt(9)

(***************************************************************************)
(* C26.  In sec_downloader_2, the tier save_to_excel assigns to a metric   *)
(* by its position in target_metrics equals, for every metric, the tier    *)
(* heading under which the metric is declared.                             *)
(***************************************************************************)
\* C26: every row of the Metrics Dictionary carries the tier of the heading
\* its metric is declared under; once the loop is over there is a row for
\* every metric.
C26_AssignedTierIsDeclaredTier ==
    /\ \A k \in 1..Len(excel.metrics_info) :
          excel.metrics_info[k].Tier = DeclaredTier(excel.metrics_info[k].Metric_Name)
    /\ excel.pc # "metrics_info" => Len(excel.metrics_info) = Len(TargetMetrics2)

\* what does hold: ranks 1 to 14 get the tier of their heading
C26_FirstFourteenAgree ==
    \A k \in 1..Len(excel.metrics_info) :
        k <= 14 => excel.metrics_info[k].Tier
                      = DeclaredTier(excel.metrics_info[k].Metric_Name)

\* the metric of rank 15, declared first under the third heading, is in the
\* dictionary as a metric of tier 2
C26_ProvisionInTierTwo ==
    /\ Len(excel.metrics_info) >= 15
    /\ excel.metrics_info[15].Metric_Name = "ProvisionForLoanLosses"
    /\ excel.metrics_info[15].Tier = "TIER 2"
    /\ DeclaredTier("ProvisionForLoanLosses") = "TIER 3"

(***************************************************************************)
(* C23.  download_bank_data attempts every bank of top_banks exactly once, *)
(* in the table's order; a failure for one bank (non-200 status, network   *)
(* or decoding fault, extraction fault) contributes zero records for that  *)
(* bank without preventing the remaining banks from being processed; the   *)
(* call returns a table holding the records of all banks that succeeded.   *)
(***************************************************************************)
\* the banks attempted so far, in order
Attempted == [k \in 1..Len(download.attempts) |-> download.attempts[k].bank]

RECURSIVE RecordsOf(_)
\* the records the attempts of a list contributed, in order
RecordsOf(attempts) ==
    IF attempts = <<>> THEN <<>>
    ELSE Head(attempts).bank_metrics \o RecordsOf(Tail(attempts))

\* the rows of the table are the records, each once, dated and reindexed
HoldsExactly(df, records) ==
    /\ Len(df.rows) = Len(records)
    /\ \E f \in [1..Len(records) -> 1..Len(records)] :
          /\ \A j, k \in 1..Len(records) : j # k => f[j] # f[k]
          /\ \A k \in 1..Len(records) :
                \A c \in DOMAIN records[k] :
                    df.rows[f[k]][c] = IF c = "Datetime" THEN ToDatetime(records[k][c])
                                       ELSE records[k][c]

\* C23: the banks are attempted once each in order, a bank that failed
\* contributes no record, and the table returned is made after every bank
\* was attempted and holds the records of the banks that succeeded.
C23_FailuresContributeNothing ==
    /\ Attempted = SubSeq(TopBanks, 1, download.i)
    /\ \A k \in 1..Len(download.attempts) :
          download.attempts[k].outcome # "succeeded"
              => download.attempts[k].bank_metrics = <<>>
    /\ download.returned =>
          /\ download.i = Len(TopBanks)
          /\ HoldsExactly(download.df,
                          RecordsOf(SelectSeq(download.attempts,
                                              LAMBDA a : a.outcome = "succeeded")))

\* what does hold: the order, no record from a bank whose facts could not be
\* fetched, and a table of everything the extractions returned
C23_AllBanksAttemptedInOrder ==
    /\ Attempted = SubSeq(TopBanks, 1, download.i)
    /\ \A k \in 1..Len(download.attempts) :
          download.attempts[k].outcome \in Unavailable
              => download.attempts[k].bank_metrics = <<>>
    /\ download.returned =>
          /\ download.i = Len(TopBanks)
          /\ HoldsExactly(download.df, RecordsOf(download.attempts))

\* version 1 returned a table with a record of a bank whose extraction
\* faulted, beside the records of a bank that succeeded
C23_FaultedBankInTable ==
    /\ download.returned
    /\ download.version = 1
    /\ \E j, k \in 1..Len(download.attempts) :
          /\ download.attempts[j].outcome = "extraction fault"
          /\ download.attempts[j].bank_metrics # <<>>
          /\ download.attempts[k].outcome = "succeeded"
          /\ \E r \in 1..Len(download.df.rows) :
                download.df.rows[r]["CompanyName"] = PyStr(download.attempts[j].bank)

(***************************************************************************)
(* C27.  update_chat called with no trigger, or with a user input that is  *)
(* null, empty or only whitespace, returns the chat children and the chat  *)
(* history exactly as it received them, clears the input box, and does not *)
(* call the chatbot.                                                       *)
(***************************************************************************)
\* the input is null, empty or only whitespace
Blank(user_input) ==
    \/ user_input = None
    \/ \A i \in 1..Len(user_input.chars) : user_input.chars[i] \in Whitespace

\* the last callback was one the user did not submit anything with
LastWasIdle ==
    /\ chat.last # NoValue
    /\ (~chat.last.received.triggered \/ Blank(chat.last.received.user_input))

\* the last callback was a submission of a message
LastWasSubmission ==
    /\ chat.last # NoValue
    /\ chat.last.received.triggered
    /\ ~Blank(chat.last.received.user_input)

\* C27: such a call returns its children and its history, an empty input
\* value, and makes no call of the chatbot.
C27_IdleCallChangesNothing ==
    LastWasIdle =>
        /\ chat.last.outcome.returned
        /\ chat.last.outcome.outputs.children = chat.last.received.children
        /\ chat.last.outcome.outputs.history = chat.last.received.history
        /\ chat.last.outcome.outputs.value = Text(<<>>)
        /\ chat.last.outcome.chatbot_calls = 0

\* after one exchange, a triggered call with only blanks in the box came
\* back: the page is as it was, the box empty
C27_Witness ==
    /\ chat.last # NoValue
    /\ chat.last.received.triggered
    /\ chat.last.received.user_input = Text(<<" ", "\t">>)
    /\ Len(chat.last.received.history) = 2
    /\ chat.history = chat.last.received.history
    /\ chat.value = Text(<<>>)
    /\ chat.chatbot_calls = 1

(***************************************************************************)
(* C28.  From the initial layout, after any sequence of update_chat calls  *)
(* whose outputs are fed back, the chat history is append-only, has even   *)
(* length and alternates a user entry and its bot entry (text, table or    *)
(* image) in submission order, and the chat container holds one child      *)
(* more than the history has entries.                                      *)
(***************************************************************************)
\* the kind of a bot entry, as the PDF renderer reads it (line 392)
Subtype(item) == IF "subtype" \in DOMAIN item THEN item.subtype ELSE "text"

\* seq begins with prefix
IsPrefix(prefix, seq) ==
    Len(prefix) <= Len(seq) /\ SubSeq(seq, 1, Len(prefix)) = prefix

\* C28: the shape of the history at every moment, its growth over the last
\* callback, and the size of the chat.
C28_HistoryAlternates ==
    /\ Len(chat.history) % 2 = 0
    /\ \A k \in 1..(Len(chat.history) \div 2) :
          /\ chat.history[2 * k - 1].type = "user"
          /\ chat.history[2 * k].type = "bot"
          /\ Subtype(chat.history[2 * k]) \in {"text", "dataframe", "image"}
    /\ Len(chat.children) = Len(chat.history) + 1
    /\ chat.last # NoValue => IsPrefix(chat.last.received.history, chat.history)
    /\ (LastWasSubmission /\ chat.last.outcome.returned) =>
          /\ Len(chat.history) = Len(chat.last.received.history) + 2
          /\ chat.history[Len(chat.history) - 1].type = "user"
          /\ chat.history[Len(chat.history) - 1].content = chat.last.received.user_input

\* the agent's dashboard after two exchanges, the first answered with a
\* table and the second with an image
C28_Witness ==
    /\ chat.app = 2
    /\ Len(chat.history) = 4
    /\ Len(chat.children) = 5
    /\ chat.history[1].content = Text(<<"d", "a", "t", "a">>)
    /\ chat.history[2].subtype = "dataframe"
    /\ chat.history[3].content = Text(<<" ", "P", "l", "o", "t", " ">>)
    /\ chat.history[4].subtype = "image"

\* the mock's dashboard after two exchanges
C28_WitnessMock ==
    /\ chat.app = 1
    /\ Len(chat.history) = 4
    /\ chat.history[2].content = StrOf(Figure("Wells Fargo Revenue Trend"))
    /\ chat.history[4].content.t = "str"

(***************************************************************************)
(* C29.  In the LLM-backed dashboard, every non-blank user input makes     *)
(* update_chat append one user entry and one bot entry to the history and  *)
(* the chat, whatever the agent's invoke returned, an empty tool_calls     *)
(* list included: the callback never faults.                               *)
(***************************************************************************)
\* C29: a submission to the agent's dashboard returns, with two entries
\* more in the history and two children more in the chat.
C29_EverySubmissionAnswered ==
    (chat.app = 2 /\ LastWasSubmission) =>
        /\ chat.last.outcome.returned
        /\ Len(chat.history) = Len(chat.last.received.history) + 2
        /\ Len(chat.children) = Len(chat.last.received.children) + 2

\* what does hold: a submission the agent answered with a tool call is
\* appended
C29_ToolCallAnswered ==
    (chat.app = 2 /\ LastWasSubmission /\ chat.last.outcome.returned) =>
        /\ Len(chat.history) = Len(chat.last.received.history) + 2
        /\ Len(chat.children) = Len(chat.last.received.children) + 2

\* a submission to the agent's dashboard ended in IndexError, and the page
\* still shows the text the user sent
C29_CallbackFaulted ==
    /\ chat.app = 2
    /\ LastWasSubmission
    /\ ~chat.last.outcome.returned
    /\ chat.last.outcome.exc.type = "IndexError"
    /\ chat.value = chat.last.received.user_input
    /\ chat.history = chat.last.received.history

====
